---- MODULE Spec2Model ----
(***************************************************************************)
(* Model of the embedding-builder service: the job ledger, the working-copy *)
(* manager, the embedding pipeline (both generations of it that live in the *)
(* repository) and the Pinecone adapter (both generations).                 *)
(*                                                                          *)
(* Every await of the TypeScript code is one step of the model; what runs   *)
(* between two awaits is atomic, as it is on the Node event loop.           *)
(***************************************************************************)
EXTENDS Integers, Sequences, FiniteSets, TLC

(***************************************************************************)
(* Bounds of the model                                                      *)
(***************************************************************************)
\* largest number of chunks a working copy yields
MaxChunks == 52
\* longest vector list a direct caller of the adapter passes to upsert
MaxVecs == 2

(***************************************************************************)
(* Program constants                                                        *)
(***************************************************************************)
INDEX_DIMENSION == 1536
MAX_RETRIES == 12
PINECONE_BATCH_SIZE == 40
\* utils/constants.ts
BATCH_SIZE == 50
INITIAL_PROGRESS == 10
CHUNKING_PROGRESS == 30
FINAL_PROGRESS == 100
\* the literals of the inline pipeline
INLINE_INITIAL_PROGRESS == 20
INLINE_CHUNKING_PROGRESS == 40
INLINE_PROGRESS_EVERY == 10

INDEX_METRIC == "cosine"
\* chunkFile and walkAndChunkDirectory: chunkSize = 500
DEFAULT_CHUNK_SIZE == 500
\* a dimension an existing index may have that is not the configured one
OtherDimension == INDEX_DIMENSION \div 2

(***************************************************************************)
(* Processes and inputs                                                     *)
(***************************************************************************)
Jobs == {"j1", "j2"}
\* the jobs submitted under the single-job specification
SoloJobs == {"j1"}
\* direct callers of the adapter
Clients == {"c1", "c2"}
\* the caller of the single-caller adapter specification
SoloClients == {"c1"}
App == "app"
Procs == Jobs \cup Clients \cup {App}
Tenants == {"A", "B"}

\* JavaScript undefined (an absent commit, an unset error field)
Undefined == "<undefined>"
\* a commit value as the request carries it
Commits == {Undefined, "c1"}

VARIABLES
  controller,   \* which POST /embed handler the build has: "jobs" | "inline"
  adapter,      \* which PineconeService the build has: "namespaced" | "flat"
  \* ---- remote Pinecone
  indexState,   \* "absent" | "creating" | "ready"
  indexDim,
  indexMetric,
  store,        \* namespace -> set of records
  \* ---- PineconeService
  initialized,
  aop,          \* per caller: the adapter operation in progress
  apc,          \* per caller: position inside it
  aretries,     \* per caller: retries of waitForIndexReady
  agroups,      \* per caller: Object.entries(vectorsByUser) still to write
  abi,          \* per caller: loop index i inside the current group
  aarg,         \* per caller: arguments of the call
  awas,         \* per caller: this.initialized when the call was made (history)
  apollErrors,  \* per caller: describeIndex calls of the readiness wait that threw (history)
  ares,         \* per caller: outcome of the call
  aout,         \* per caller: matches returned by query
  rlog,         \* per caller: remote calls the current operation has made
  \* ---- application
  appState,     \* "starting" | "init" | "listening" | "exited"
  \* ---- job ledger (MongoDB)
  job,          \* jobId -> [status, progress, error]
  \* ---- filesystem
  dirExists,    \* directory -> it exists
  \* ---- pipeline run, per job
  pc,
  tenant,       \* userId of the request
  commit,       \* commit of the request
  workDir,      \* the workDir variable holds a path (not null)
  nChunks,      \* chunks.length
  idx,          \* loop index i
  inflight,     \* generateEmbedding calls not yet resolved
  nVectors,     \* vectors.length
  err,          \* the error caught / in flight
  outcome,      \* "pending" | "returned" | "thrown"
  \* ---- observation (history) per job
  trace,        \* statuses the record went through
  walked,       \* walkAndChunkDirectory has returned
  embedCalls,   \* generateEmbedding calls issued
  embedFailed,  \* some generateEmbedding call was rejected
  upsertCalls,  \* pineconeService.upsert calls made
  rmCalls,      \* cleanWorkingDirectory calls made
  rmOk,         \* the last fs.rm succeeded
  \* ---- walkAndChunkDirectory and chunkFile
  kpc,          \* position of the walk
  tree,         \* the file entries of the tree not yet visited, in readdir order
  chunkSize,
  lines,        \* chunkFile: content.split('\n')
  li,           \* chunkFile: loop index i
  currentChunk,
  lineCount,
  chunkIndex,
  startLine,
  fileChunks,   \* chunkFile: its chunks array
  chunks,       \* walkAndChunkDirectory: its chunks array
  \* ---- observation (history) of the walk
  visited,      \* per entry visited: what the walk decided and got
  \* ---- HTTP: POST /embed and GET /embed/:jobId, per request slot
  payload,      \* req.body of the POST
  res,          \* the responses sent to the POST, in order
  started,      \* pipelines started for the POST
  qres          \* the response to the last GET /embed/<jobId>

remoteVars == <<indexState, indexDim, indexMetric, store>>
adapterVars == <<initialized, aop, apc, aretries, agroups, abi, aarg, awas, apollErrors, ares, aout, rlog>>
buildVars == <<controller, adapter>>
ledgerVars == <<job, trace>>
runVars == <<pc, tenant, commit, workDir, nChunks, idx, inflight, nVectors, err, outcome>>
obsVars == <<walked, embedCalls, embedFailed, upsertCalls, rmCalls, rmOk>>
pipelineVars == <<job, trace, dirExists, pc, tenant, commit, workDir, nChunks, idx,
                  inflight, nVectors, err, outcome, walked, embedCalls, embedFailed,
                  upsertCalls, rmCalls, rmOk>>
chunkerVars == <<kpc, tree, chunkSize, lines, li, currentChunk, lineCount, chunkIndex,
                 startLine, fileChunks, chunks, visited>>
apiVars == <<payload, res, started, qres>>
\* everything but the walk
serviceVars == <<controller, adapter, indexState, indexDim, indexMetric, store,
                 initialized, aop, apc, aretries, agroups, abi, aarg, awas, apollErrors, ares, aout, rlog,
                 appState, job, dirExists, pc, tenant, commit, workDir, nChunks, idx,
                 inflight, nVectors, err, outcome, trace, walked, embedCalls, embedFailed,
                 upsertCalls, rmCalls, rmOk, payload, res, started, qres>>
vars == <<controller, adapter, indexState, indexDim, indexMetric, store,
          initialized, aop, apc, aretries, agroups, abi, aarg, awas, apollErrors, ares, aout, rlog,
          appState, job, dirExists, pc, tenant, commit, workDir, nChunks, idx,
          inflight, nVectors, err, outcome, trace, walked, embedCalls, embedFailed,
          upsertCalls, rmCalls, rmOk, kpc, tree, chunkSize, lines, li, currentChunk,
          lineCount, chunkIndex, startLine, fileChunks, chunks, visited,
          payload, res, started, qres>>

(***************************************************************************)
(* Small helpers                                                            *)
(***************************************************************************)
Min(a, b) == IF a < b THEN a ELSE b

\* JavaScript `x || fallback` on a string-or-undefined
OrElse(x, fallback) == IF x = Undefined \/ x = "" THEN fallback ELSE x

SeqToSet(s) == {s[k] : k \in 1..Len(s)}

\* String.prototype.toLowerCase on the letters A-Z
LowerOf ==
  "A" :> "a" @@ "B" :> "b" @@ "C" :> "c" @@ "D" :> "d" @@ "E" :> "e" @@ "F" :> "f" @@
  "G" :> "g" @@ "H" :> "h" @@ "I" :> "i" @@ "J" :> "j" @@ "K" :> "k" @@ "L" :> "l" @@
  "M" :> "m" @@ "N" :> "n" @@ "O" :> "o" @@ "P" :> "p" @@ "Q" :> "q" @@ "R" :> "r" @@
  "S" :> "s" @@ "T" :> "t" @@ "U" :> "u" @@ "V" :> "v" @@ "W" :> "w" @@ "X" :> "x" @@
  "Y" :> "y" @@ "Z" :> "z"

toLowerCase(s) ==
  [k \in 1..Len(s) |-> IF s[k] \in DOMAIN LowerOf THEN LowerOf[s[k]] ELSE s[k]]

\* Array.prototype.slice(from, to) with 0-based, end-exclusive indices
Slice(s, from, to) == SubSeq(s, from + 1, Min(to, Len(s)))

(***************************************************************************)
(* PineconeService                                                          *)
(***************************************************************************)
getNamespaceForUser(userId) == "user_" \o userId

\* the flat adapter writes through this.index, the default namespace
DefaultNamespace == ""

Namespaces == {DefaultNamespace} \cup {getNamespaceForUser(u) : u \in Tenants}

\* userIds of a vector list in order of first occurrence (key order of the
\* object built by the reduce)
userOrder(vs) ==
  LET users == {vs[k].userId : k \in 1..Len(vs)}
      firstAt(u) == CHOOSE k \in 1..Len(vs) :
                      vs[k].userId = u /\ \A m \in 1..(k - 1) : vs[m].userId # u
  IN [i \in 1..Cardinality(users) |->
        CHOOSE u \in users :
          Cardinality({w \in users : firstAt(w) < firstAt(u)}) = i - 1]

\* Object.entries(vectorsByUser) with the namespace of each entry
vectorsByUser(vs) ==
  LET order == userOrder(vs)
  IN [k \in 1..Len(order) |->
        [ns |-> getNamespaceForUser(order[k]),
         vecs |-> SelectSeq(vs, LAMBDA v : v.userId = order[k])]]

\* the flat adapter loops over the whole list against the default namespace
flatGroups(vs) ==
  IF vs = <<>> THEN <<>> ELSE <<[ns |-> DefaultNamespace, vecs |-> vs]>>

\* the slice sent as it was given
processBatch_commitAsGiven(vectors, startIdx, batchSize) ==
  Slice(vectors, startIdx, startIdx + batchSize)

\* the records processBatch sends: the slice, commit normalised
processBatch(vectors, startIdx, batchSize) ==
  LET part == Slice(vectors, startIdx, startIdx + batchSize)
  IN [k \in 1..Len(part) |-> [part[k] EXCEPT !.commit = OrElse(@, "")]]

\* remote upsert of a batch into the records of one namespace
remoteUpsert(recs, batch) ==
  {r \in recs : \A k \in 1..Len(batch) : batch[k].id # r.id}
    \cup {batch[k] : k \in {k \in 1..Len(batch) :
                              \A m \in (k+1)..Len(batch) : batch[m].id # batch[k].id}}

\* remote query: records of the namespace that match the metadata filter
remoteQuery(recs, filter) ==
  {r \in recs : filter = Undefined \/ r.userId = filter}

NoArg == [vectors |-> <<>>, userId |-> Undefined, filter |-> Undefined]
NoRes == [st |-> "none", msg |-> ""]

\* where an operation continues once the adapter is initialized
opBody(op, groups) ==
  CASE op = "init" -> "ret"
    [] op = "upsert" -> IF groups = <<>> THEN "ret" ELSE "batch"
    [] op = "query" -> "exec"
    [] op = "delete" -> "exec"
    [] op = "health" -> "stats"

\* every operation running init() whatever the flag is
firstStep_alwaysInit(op, vectors, groups) ==
  IF adapter = "namespaced" /\ op = "upsert" /\ Len(vectors) = 0 THEN "ret"
  ELSE "list"

\* upsert of the namespaced adapter returns on an empty list before it looks
\* at the initialized flag; init() called directly runs whatever the flag
\* is; every other operation runs ensureInitialized first
firstStep(op, vectors, groups) ==
  IF adapter = "namespaced" /\ op = "upsert" /\ Len(vectors) = 0 THEN "ret"
  ELSE IF op = "init" THEN "list"
  ELSE IF initialized THEN opBody(op, groups)
  ELSE "list"

\* a caller enters an adapter operation
AdapterCall(p, op, arg) ==
  LET groups == IF op # "upsert" THEN <<>>
                ELSE IF adapter = "namespaced" THEN vectorsByUser(arg.vectors)
                ELSE flatGroups(arg.vectors)
      first == firstStep(op, arg.vectors, groups)
  IN /\ aop[p] = "idle"
     /\ aop' = [aop EXCEPT ![p] = op]
     /\ apc' = [apc EXCEPT ![p] = first]
     /\ aarg' = [aarg EXCEPT ![p] = arg]
     /\ awas' = [awas EXCEPT ![p] = initialized]
     /\ apollErrors' = [apollErrors EXCEPT ![p] = 0]
     /\ agroups' = [agroups EXCEPT ![p] = groups]
     /\ abi' = [abi EXCEPT ![p] = 0]
     /\ aretries' = [aretries EXCEPT ![p] = 0]
     /\ ares' = [ares EXCEPT ![p] = IF first = "ret" THEN [st |-> "ok", msg |-> ""]
                                    ELSE NoRes]
     /\ aout' = [aout EXCEPT ![p] = {}]
     /\ rlog' = [rlog EXCEPT ![p] = <<>>]
     /\ UNCHANGED initialized

\* isHealthy without its try/catch: the error reaches the caller
Throw_uncaught(p, msg) ==
  /\ apc' = [apc EXCEPT ![p] = "ret"]
  /\ ares' = [ares EXCEPT ![p] = [st |-> "err", msg |-> msg]]

\* the operation ends with an error; isHealthy catches every error, logs its
\* message and returns false
Throw(p, msg) ==
  /\ apc' = [apc EXCEPT ![p] = "ret"]
  /\ ares' = [ares EXCEPT ![p] = IF aop[p] = "health"
                                 THEN [st |-> "false", msg |-> msg]
                                 ELSE [st |-> "err", msg |-> msg]]

\* the operation ends normally
Return(p) ==
  /\ apc' = [apc EXCEPT ![p] = "ret"]
  /\ ares' = [ares EXCEPT ![p] = IF aop[p] = "health"
                                 THEN [st |-> "true", msg |-> ""]
                                 ELSE [st |-> "ok", msg |-> ""]]

Logged(p, call) == rlog' = [rlog EXCEPT ![p] = Append(@, call)]

\* init succeeded: this.initialized = true, ensureInitialized re-checks the
\* flag and the operation goes on
InitDone(p) ==
  /\ initialized' = TRUE
  /\ LET next == opBody(aop[p], agroups[p])
     IN IF next = "ret" THEN Return(p)
        ELSE /\ apc' = [apc EXCEPT ![p] = next]
             /\ UNCHANGED ares

\* ensureInitialized going on to the operation when listIndexes is rejected
ListIndexes_failureIgnored(p) ==
  /\ apc[p] = "list"
  /\ Logged(p, "listIndexes")
  /\ \/ /\ apc' = [apc EXCEPT ![p] = opBody(aop[p], agroups[p])]
        /\ ares' = [ares EXCEPT ![p] = IF opBody(aop[p], agroups[p]) = "ret"
                                       THEN [st |-> "ok", msg |-> ""] ELSE @]
     \/ /\ apc' = [apc EXCEPT ![p] = IF indexState = "absent" THEN "create" ELSE "describe"]
        /\ UNCHANGED ares
  /\ UNCHANGED <<remoteVars, initialized, aop, aretries, agroups, abi, aarg, awas, apollErrors, aout>>

\* init: await this.client.listIndexes()
ListIndexes(p) ==
  /\ apc[p] = "list"
  /\ Logged(p, "listIndexes")
  /\ \/ /\ Throw(p, "listIndexes failed")
     \/ /\ apc' = [apc EXCEPT ![p] = IF indexState = "absent" THEN "create" ELSE "describe"]
        /\ UNCHANGED ares
  /\ UNCHANGED <<remoteVars, initialized, aop, aretries, agroups, abi, aarg, awas, apollErrors, aout>>

\* init: await this.client.createIndex(...); the remote service rejects the
\* creation of an index that exists (no suppressConflicts is passed)
CreateIndex(p) ==
  /\ apc[p] = "create"
  /\ Logged(p, "createIndex")
  /\ \/ /\ Throw(p, "createIndex failed")
        /\ UNCHANGED remoteVars
     \/ /\ indexState # "absent"
        /\ Throw(p, "index already exists")
        /\ UNCHANGED remoteVars
     \/ /\ indexState = "absent"
        /\ indexState' = "creating"
        /\ indexDim' = INDEX_DIMENSION
        /\ indexMetric' = INDEX_METRIC
        /\ apc' = [apc EXCEPT ![p] = "poll"]
        /\ UNCHANGED <<store, ares>>
  /\ UNCHANGED <<initialized, aop, aretries, agroups, abi, aarg, awas, apollErrors, aout>>

\* pineconeError.code of a describeIndex call that threw while polling
PollErrorCodes == {"404", "500"}

\* waitForIndexReady rethrowing what describeIndex threw
waitForIndexReady_errorFatal(p) ==
  /\ apc[p] = "poll"
  /\ aretries[p] < MAX_RETRIES
  /\ Logged(p, "describeIndex")
  /\ \/ /\ indexState = "ready"
        /\ InitDone(p)
        /\ aretries' = [aretries EXCEPT ![p] = 0]
        /\ UNCHANGED apollErrors
     \/ /\ indexState # "ready"
        /\ aretries' = [aretries EXCEPT ![p] = @ + 1]
        /\ IF aretries[p] + 1 >= MAX_RETRIES
           THEN Throw(p, "index did not become ready")
           ELSE UNCHANGED <<apc, ares>>
        /\ UNCHANGED <<initialized, apollErrors>>
     \/ /\ \E code \in PollErrorCodes :
             apollErrors' = [apollErrors EXCEPT ![p] = @ + 1]
        /\ aretries' = [aretries EXCEPT ![p] = @ + 1]
        /\ Throw(p, "describeIndex failed")
        /\ UNCHANGED initialized
  /\ UNCHANGED <<remoteVars, aop, agroups, abi, aarg, awas, aout>>

\* waitForIndexReady returning after the last turn instead of throwing
waitForIndexReady_returnsAfterLastTurn(p) ==
  /\ apc[p] = "poll"
  /\ aretries[p] < MAX_RETRIES
  /\ Logged(p, "describeIndex")
  /\ \/ /\ indexState = "ready"
        /\ InitDone(p)
        /\ aretries' = [aretries EXCEPT ![p] = 0]
        /\ UNCHANGED apollErrors
     \/ /\ \/ indexState # "ready" /\ UNCHANGED apollErrors
           \/ \E code \in PollErrorCodes :
                apollErrors' = [apollErrors EXCEPT ![p] = @ + 1]
        /\ aretries' = [aretries EXCEPT ![p] = @ + 1]
        /\ IF aretries[p] + 1 >= MAX_RETRIES
           THEN InitDone(p)
           ELSE UNCHANGED <<apc, ares, initialized>>
  /\ UNCHANGED <<remoteVars, aop, agroups, abi, aarg, awas, aout>>

\* waitForIndexReady: one turn of the loop, describeIndex then the delay
waitForIndexReady(p) ==
  /\ apc[p] = "poll"
  /\ aretries[p] < MAX_RETRIES
  /\ Logged(p, "describeIndex")
  /\ \/ /\ indexState = "ready"
        /\ InitDone(p)
        /\ aretries' = [aretries EXCEPT ![p] = 0]  \* the loop variable is dead
        /\ UNCHANGED apollErrors
     \/ \* not ready yet, or describeIndex threw (404: silent, other: a
        \* warning is logged): the loop goes on to the delay
        /\ \/ indexState # "ready" /\ UNCHANGED apollErrors
           \/ \E code \in PollErrorCodes :
                apollErrors' = [apollErrors EXCEPT ![p] = @ + 1]
        /\ aretries' = [aretries EXCEPT ![p] = @ + 1]
        /\ IF aretries[p] + 1 >= MAX_RETRIES
           THEN Throw(p, "index did not become ready")
           ELSE UNCHANGED <<apc, ares>>
        /\ UNCHANGED initialized
  /\ UNCHANGED <<remoteVars, aop, agroups, abi, aarg, awas, aout>>

\* validateExistingIndex throwing on a differing metric as well
validateExistingIndex_metricFatal(p) ==
  /\ apc[p] = "describe"
  /\ Logged(p, "describeIndex")
  /\ \/ /\ Throw(p, "describeIndex failed")
        /\ UNCHANGED initialized
     \/ /\ indexDim # INDEX_DIMENSION
        /\ Throw(p, "dimension mismatch")
        /\ UNCHANGED initialized
     \/ /\ indexDim = INDEX_DIMENSION
        /\ IF indexMetric # INDEX_METRIC
           THEN Throw(p, "metric mismatch") /\ UNCHANGED initialized
           ELSE InitDone(p)
  /\ UNCHANGED <<remoteVars, aop, aretries, agroups, abi, aarg, awas, apollErrors, aout>>

\* init setting its flag before it has validated the description
validateExistingIndex_flagBeforeCheck(p) ==
  /\ apc[p] = "describe"
  /\ Logged(p, "describeIndex")
  /\ \/ /\ Throw(p, "describeIndex failed")
        /\ UNCHANGED initialized
     \/ /\ indexDim # INDEX_DIMENSION
        /\ Throw(p, "dimension mismatch")
        /\ initialized' = TRUE
     \/ /\ indexDim = INDEX_DIMENSION
        /\ InitDone(p)
  /\ UNCHANGED <<remoteVars, aop, aretries, agroups, abi, aarg, awas, apollErrors, aout>>

\* init on an existing index: describeIndex and validateExistingIndex
validateExistingIndex(p) ==
  /\ apc[p] = "describe"
  /\ Logged(p, "describeIndex")
  /\ \/ /\ Throw(p, "describeIndex failed")
        /\ UNCHANGED initialized
     \/ /\ indexDim # INDEX_DIMENSION
        /\ Throw(p, "dimension mismatch")
        /\ UNCHANGED initialized
     \/ /\ indexDim = INDEX_DIMENSION
        /\ InitDone(p)
  /\ UNCHANGED <<remoteVars, aop, aretries, agroups, abi, aarg, awas, apollErrors, aout>>

\* the remote service finishes provisioning the index
IndexBecomesReady ==
  /\ indexState = "creating"
  /\ indexState' = "ready"
  /\ UNCHANGED <<buildVars, chunkerVars, apiVars, indexDim, indexMetric, store, adapterVars, appState, pipelineVars>>

\* the batches of one group in the order the inner loop sends them
batchesOf(g) ==
  [k \in 1..((Len(g.vecs) + PINECONE_BATCH_SIZE - 1) \div PINECONE_BATCH_SIZE) |->
     [ns |-> g.ns,
      batch |-> processBatch(g.vecs, (k - 1) * PINECONE_BATCH_SIZE, PINECONE_BATCH_SIZE)]]

\* every batch an upsert call sends when none fails, in order: the two
\* nested loops of upsert unrolled
RECURSIVE upsertPlan(_)
upsertPlan(groups) ==
  IF groups = <<>> THEN <<>>
  ELSE batchesOf(Head(groups)) \o upsertPlan(Tail(groups))

\* upsert undoing the batches it has written when one fails
UpsertBatch_rollsBack(p) ==
  /\ apc[p] = "batch"
  /\ LET g == Head(agroups[p])
         batch == processBatch(g.vecs, abi[p], PINECONE_BATCH_SIZE)
     IN /\ Logged(p, "upsert")
        /\ \/ /\ \E m \in {"", "upsert failed"} : Throw(p, m)
              /\ store' = [ns \in Namespaces |->
                             {r \in store[ns] :
                                \A k \in 1..Len(aarg[p].vectors) : aarg[p].vectors[k].id # r.id}]
              /\ UNCHANGED <<agroups, abi>>
           \/ /\ store' = [store EXCEPT ![g.ns] = remoteUpsert(@, batch)]
              /\ IF abi[p] + PINECONE_BATCH_SIZE < Len(g.vecs)
                 THEN /\ abi' = [abi EXCEPT ![p] = @ + PINECONE_BATCH_SIZE]
                      /\ UNCHANGED <<agroups, apc, ares>>
                 ELSE /\ abi' = [abi EXCEPT ![p] = 0]
                      /\ agroups' = [agroups EXCEPT ![p] = Tail(@)]
                      /\ IF Tail(agroups[p]) = <<>>
                         THEN Return(p)
                         ELSE UNCHANGED <<apc, ares>>
  /\ UNCHANGED <<indexState, indexDim, indexMetric, initialized, aop, aretries, aarg, awas, apollErrors, aout>>

\* upsert: one await processBatch(...) / await this.index.upsert(batch)
UpsertBatch(p) ==
  /\ apc[p] = "batch"
  /\ LET g == Head(agroups[p])
         batch == processBatch(g.vecs, abi[p], PINECONE_BATCH_SIZE)
     IN /\ Logged(p, "upsert")
        /\ \/ /\ \E m \in {"", "upsert failed"} : Throw(p, m)
              /\ UNCHANGED <<store, agroups, abi>>
           \/ /\ store' = [store EXCEPT ![g.ns] = remoteUpsert(@, batch)]
              /\ IF abi[p] + PINECONE_BATCH_SIZE < Len(g.vecs)
                 THEN /\ abi' = [abi EXCEPT ![p] = @ + PINECONE_BATCH_SIZE]
                      /\ UNCHANGED <<agroups, apc, ares>>
                 ELSE /\ abi' = [abi EXCEPT ![p] = 0]
                      /\ agroups' = [agroups EXCEPT ![p] = Tail(@)]
                      /\ IF Tail(agroups[p]) = <<>>
                         THEN Return(p)
                         ELSE UNCHANGED <<apc, ares>>
  /\ UNCHANGED <<indexState, indexDim, indexMetric, initialized, aop, aretries, aarg, awas, apollErrors, aout>>

\* query: await namespace.query(...) / await this.index.query(...)
Query(p) ==
  /\ aop[p] = "query"
  /\ apc[p] = "exec"
  /\ Logged(p, "query")
  /\ \/ /\ Throw(p, "query failed")
        /\ UNCHANGED aout
     \/ /\ Return(p)
        /\ aout' = [aout EXCEPT ![p] =
             IF adapter = "namespaced"
             THEN remoteQuery(store[getNamespaceForUser(aarg[p].userId)], aarg[p].filter)
             ELSE remoteQuery(store[DefaultNamespace], aarg[p].filter)]
  /\ UNCHANGED <<remoteVars, initialized, aop, aretries, agroups, abi, aarg, awas, apollErrors>>

\* deleteUserVectors: await namespace.deleteAll()
deleteUserVectors(p) ==
  /\ aop[p] = "delete"
  /\ apc[p] = "exec"
  /\ Logged(p, "deleteAll")
  /\ \/ /\ Throw(p, "deleteAll failed")
        /\ UNCHANGED store
     \/ /\ Return(p)
        /\ store' = [store EXCEPT ![getNamespaceForUser(aarg[p].userId)] = {}]
  /\ UNCHANGED <<indexState, indexDim, indexMetric, initialized, aop, aretries, agroups, abi, aarg, awas, apollErrors, aout>>

\* isHealthy: await this.index.describeIndexStats()
isHealthy(p) ==
  /\ apc[p] = "stats"
  /\ Logged(p, "describeIndexStats")
  /\ \/ Throw(p, "describeIndexStats failed")
     \/ Return(p)
  /\ UNCHANGED <<remoteVars, initialized, aop, aretries, agroups, abi, aarg, awas, apollErrors, aout>>

\* the steps the adapter takes on behalf of caller p
AdapterStep(p) ==
  \/ ListIndexes(p)
  \/ CreateIndex(p)
  \/ waitForIndexReady(p)
  \/ validateExistingIndex(p)
  \/ UpsertBatch(p)

\* the caller takes the result; the adapter holds nothing of the call
AdapterReset(p) ==
  /\ aop' = [aop EXCEPT ![p] = "idle"]
  /\ apc' = [apc EXCEPT ![p] = "idle"]
  /\ aarg' = [aarg EXCEPT ![p] = NoArg]
  /\ awas' = [awas EXCEPT ![p] = FALSE]
  /\ apollErrors' = [apollErrors EXCEPT ![p] = 0]
  /\ agroups' = [agroups EXCEPT ![p] = <<>>]
  /\ abi' = [abi EXCEPT ![p] = 0]
  /\ aretries' = [aretries EXCEPT ![p] = 0]
  /\ ares' = [ares EXCEPT ![p] = NoRes]
  /\ aout' = [aout EXCEPT ![p] = {}]
  /\ rlog' = [rlog EXCEPT ![p] = <<>>]

(***************************************************************************)
(* Job ledger (MongoService)                                                *)
(***************************************************************************)
\* no record has the id; createdAt and updatedAt are logical times, the
\* number of writes the record has had
NoJob == [jobId |-> Undefined, userId |-> Undefined, repoUrl |-> <<>>,
          commit |-> Undefined, status |-> "none", progress |-> 0,
          error |-> Undefined, createdAt |-> 0, updatedAt |-> 0]

\* createJob: the record as saved
createJob(jobId, userId, repoUrl, rev) ==
  [jobId |-> jobId, userId |-> userId, repoUrl |-> repoUrl, commit |-> rev,
   status |-> "queued", progress |-> 0, error |-> Undefined,
   createdAt |-> 1, updatedAt |-> 1]

\* updateJobStatus: the update applied to a record; error is written only
\* when truthy
updateJobStatus(rec, status, progress, error) ==
  [rec EXCEPT !.status = status,
              !.progress = progress,
              !.error = IF error # Undefined /\ error # "" THEN error ELSE @,
              !.updatedAt = @ + 1]

\* the update applied without the jobId filter, to every record there is
LedgerWrite_everyRecord(j, status, progress, error) ==
  /\ job' = [k \in Jobs |-> IF job[k].status = "none" THEN job[k]
                            ELSE updateJobStatus(job[k], status, progress, error)]
  /\ trace' = [trace EXCEPT ![j] = IF status = job[j].status THEN @ ELSE Append(@, status)]

\* await mongoService.updateJobStatus(jobId, status, progress, error)
LedgerWrite(j, status, progress, error) ==
  /\ job' = [job EXCEPT ![j] = updateJobStatus(@, status, progress, error)]
  /\ trace' = [trace EXCEPT ![j] = IF status = job[j].status THEN @ ELSE Append(@, status)]

(***************************************************************************)
(* Working-copy manager (GitService)                                        *)
(***************************************************************************)
TEMP_DIR == "./work"

\* every job in one directory
workDirOf_shared(jobId) == <<TEMP_DIR, "job">>

\* cloneRepository: path.join(config.tempDir, jobId)
workDirOf(jobId) == <<TEMP_DIR, jobId>>

\* the directories the jobs can make
WorkDirs == {workDirOf(j) : j \in Jobs}

\* directory d is dir or lies below it
below(d, dir) == Len(d) >= Len(dir) /\ SubSeq(d, 1, Len(dir)) = dir

\* cleanWorkingDirectory: fs.rm(recursive, force) removes the directory and
\* all below it; a failure is logged, never raised
cleanWorkingDirectory(j) ==
  \E ok \in (IF dirExists[workDirOf(j)] THEN BOOLEAN ELSE {TRUE}) :
    /\ dirExists' = [d \in WorkDirs |->
                       IF ok /\ below(d, workDirOf(j)) THEN FALSE ELSE dirExists[d]]
    /\ rmCalls' = [rmCalls EXCEPT ![j] = @ + 1]
    /\ rmOk' = [rmOk EXCEPT ![j] = ok]

\* cloneRepository returned workDir to its caller
Acquired(j) ==
  IF controller = "jobs"
  THEN /\ pc' = [pc EXCEPT ![j] = "running0"]
       /\ UNCHANGED workDir
  ELSE /\ pc' = [pc EXCEPT ![j] = "initial"]
       /\ workDir' = [workDir EXCEPT ![j] = TRUE]

\* cloneRepository: await fs.promises.mkdir(workDir, {recursive})
Mkdir(j) ==
  /\ pc[j] = "mkdir"
  /\ \/ /\ dirExists' = [dirExists EXCEPT ![workDirOf(j)] = TRUE]
        /\ pc' = [pc EXCEPT ![j] = "clone"]
        /\ UNCHANGED err
     \/ /\ err' = [err EXCEPT ![j] = "mkdir failed"]
        /\ pc' = [pc EXCEPT ![j] = "acq_clean"]
        /\ UNCHANGED dirExists
  /\ UNCHANGED <<buildVars, chunkerVars, apiVars, remoteVars, adapterVars, appState, ledgerVars, tenant, commit,
                 workDir, nChunks, idx, inflight, nVectors, outcome, obsVars>>

\* cloneRepository: await this.git.clone(repoUrl, workDir)
GitClone(j) ==
  /\ pc[j] = "clone"
  /\ \/ /\ IF commit[j] # Undefined
           THEN pc' = [pc EXCEPT ![j] = "checkout"] /\ UNCHANGED workDir
           ELSE Acquired(j)
        /\ UNCHANGED err
     \/ /\ err' = [err EXCEPT ![j] = "clone failed"]
        /\ pc' = [pc EXCEPT ![j] = "acq_clean"]
        /\ UNCHANGED workDir
  /\ UNCHANGED <<buildVars, chunkerVars, apiVars, remoteVars, adapterVars, appState, ledgerVars, dirExists, tenant,
                 commit, nChunks, idx, inflight, nVectors, outcome, obsVars>>

\* cloneRepository cloning once more when the checkout has failed
Checkout_retriesClone(j) ==
  /\ pc[j] = "checkout"
  /\ \/ /\ Acquired(j)
        /\ UNCHANGED err
     \/ /\ err' = [err EXCEPT ![j] = "checkout failed"]
        /\ pc' = [pc EXCEPT ![j] = "clone"]
        /\ UNCHANGED workDir
  /\ UNCHANGED <<buildVars, chunkerVars, apiVars, remoteVars, adapterVars, appState, ledgerVars, dirExists, tenant,
                 commit, nChunks, idx, inflight, nVectors, outcome, obsVars>>

\* cloneRepository: await gitInWorkDir.checkout(commit)
Checkout(j) ==
  /\ pc[j] = "checkout"
  /\ \/ /\ Acquired(j)
        /\ UNCHANGED err
     \/ /\ err' = [err EXCEPT ![j] = "checkout failed"]
        /\ pc' = [pc EXCEPT ![j] = "acq_clean"]
        /\ UNCHANGED workDir
  /\ UNCHANGED <<buildVars, chunkerVars, apiVars, remoteVars, adapterVars, appState, ledgerVars, dirExists, tenant,
                 commit, nChunks, idx, inflight, nVectors, outcome, obsVars>>

\* cloneRepository rethrowing without removing the directory
AcquireFailed_noClean(j) ==
  /\ pc[j] = "acq_clean"
  /\ IF controller = "jobs"
     THEN /\ pc' = [pc EXCEPT ![j] = "done"]
          /\ outcome' = [outcome EXCEPT ![j] = "thrown"]
     ELSE /\ pc' = [pc EXCEPT ![j] = "catch"]
          /\ UNCHANGED outcome
  /\ UNCHANGED <<buildVars, chunkerVars, apiVars, remoteVars, adapterVars, appState, ledgerVars, dirExists, tenant,
                 commit, workDir, nChunks, idx, inflight, nVectors, err, obsVars>>

\* cloneRepository throwing the error of a failed removal instead of the
\* error it caught
AcquireFailed_cleanupErrorWins(j) ==
  /\ pc[j] = "acq_clean"
  /\ cleanWorkingDirectory(j)
  /\ err' = IF rmOk'[j] THEN err ELSE [err EXCEPT ![j] = "rm failed"]
  /\ IF controller = "jobs"
     THEN /\ pc' = [pc EXCEPT ![j] = "done"]
          /\ outcome' = [outcome EXCEPT ![j] = "thrown"]
     ELSE /\ pc' = [pc EXCEPT ![j] = "catch"]
          /\ UNCHANGED outcome
  /\ UNCHANGED <<buildVars, chunkerVars, apiVars, remoteVars, adapterVars, appState, ledgerVars, tenant, commit,
                 workDir, nChunks, idx, inflight, nVectors, walked, embedCalls,
                 embedFailed, upsertCalls>>

\* cloneRepository, catch: await this.cleanWorkingDirectory(workDir); throw.
\* processEmbedding calls cloneRepository before its try block, so there the
\* error leaves processEmbedding; the inline pipeline calls it inside the try.
AcquireFailed(j) ==
  /\ pc[j] = "acq_clean"
  /\ cleanWorkingDirectory(j)
  /\ IF controller = "jobs"
     THEN /\ pc' = [pc EXCEPT ![j] = "done"]
          /\ outcome' = [outcome EXCEPT ![j] = "thrown"]
     ELSE /\ pc' = [pc EXCEPT ![j] = "catch"]
          /\ UNCHANGED outcome
  /\ UNCHANGED <<buildVars, chunkerVars, apiVars, remoteVars, adapterVars, appState, ledgerVars, tenant, commit,
                 workDir, nChunks, idx, inflight, nVectors, err, walked, embedCalls,
                 embedFailed, upsertCalls>>

(***************************************************************************)
(* Embedding pipeline: processEmbedding (jobs/processEmbeddings.ts, started *)
(* by api/embed.controller.ts) and the pipeline inlined in the older POST   *)
(* /embed handler                                                           *)
(***************************************************************************)
\* updateProgress without the scaling of the remaining range
updateProgress_unscaled(baseProgress, current, total) ==
  baseProgress + (100 * current) \div total

\* updateProgress: the value it writes
updateProgress(baseProgress, current, total) ==
  (baseProgress * total + (100 - baseProgress) * current) \div total

\* the inline pipeline: Math.floor(40 + (60 * (i + 1)) / chunks.length)
inlineProgress(i, total) ==
  (INLINE_CHUNKING_PROGRESS * total + 60 * (i + 1)) \div total

\* the walk's result: files of ChunksPerFile full chunks each, the k-th
\* chunk of the sequence as chunkFile numbers it
ChunksPerFile == 2

chunkAt(k) ==
  LET nth == (k - 1) % ChunksPerFile
  IN [content |-> <<"content", k>>,
      filePath |-> <<"file", (k - 1) \div ChunksPerFile>>,
      chunkIndex |-> nth,
      startLine |-> nth * DEFAULT_CHUNK_SIZE + 1,
      endLine |-> (nth + 1) * DEFAULT_CHUNK_SIZE]

\* the embedding of a text
generateEmbedding(content) == <<"embedding", content>>

\* the vectors a run hands to upsert, one per chunk in chunk order
\* (processEmbedding passes commit || '', the inline pipeline passes commit)
jobVectors(j, n) ==
  [k \in 1..n |->
     [id |-> <<j, k>>,
      values |-> generateEmbedding(chunkAt(k).content),
      repoUrl |-> payload[j].repoUrl,
      filePath |-> chunkAt(k).filePath,
      chunkIndex |-> chunkAt(k).chunkIndex,
      commit |-> IF controller = "jobs" THEN OrElse(commit[j], "") ELSE commit[j],
      userId |-> tenant[j],
      startLine |-> chunkAt(k).startLine,
      endLine |-> chunkAt(k).endLine]]

\* processChunksInBatches: chunks.slice(i, min(i + BATCH_SIZE, length)) is
\* mapped to processChunk calls, all issued before Promise.all is awaited
IssueBatch(j, i) ==
  LET batchLen == Min(i + BATCH_SIZE, nChunks'[j]) - i
  IN /\ inflight' = [inflight EXCEPT ![j] = @ + batchLen]
     /\ embedCalls' = [embedCalls EXCEPT ![j] = @ + batchLen]
     /\ pc' = [pc EXCEPT ![j] = "await"]

\* upsertVectors / pineconeService.upsert(vectors) is entered
CallUpsert(j) ==
  /\ AdapterCall(j, "upsert", [NoArg EXCEPT !.vectors = jobVectors(j, nVectors'[j])])
  /\ upsertCalls' = [upsertCalls EXCEPT ![j] = @ + 1]
  /\ pc' = [pc EXCEPT ![j] = "upsert"]

(***************************************************************************)
(* POST /embed (api/embed.controller.ts and the older handler with the      *)
(* pipeline inlined).  A URL is the sequence of its characters.             *)
(***************************************************************************)
startsWith(s, prefix) ==
  Len(s) >= Len(prefix) /\ toLowerCase(SubSeq(s, 1, Len(prefix))) = prefix

endsWith(s, suffix) ==
  Len(s) >= Len(suffix)
    /\ toLowerCase(SubSeq(s, Len(s) - Len(suffix) + 1, Len(s))) = suffix

\* the rest of s after a prefix of n characters
after(s, n) == SubSeq(s, n + 1, Len(s))

\* GitService.isGitUrl: /^https?:\/\/.*\.git$/i, /^git@.*:.*.git$/i (the dot
\* before git is not escaped: any character), /^git:\/\/.*\.git$/i
isGitUrl(url) ==
  \/ startsWith(url, <<"h", "t", "t", "p", ":", "/", "/">>) /\ endsWith(after(url, 7), <<".", "g", "i", "t">>)
  \/ startsWith(url, <<"h", "t", "t", "p", "s", ":", "/", "/">>) /\ endsWith(after(url, 8), <<".", "g", "i", "t">>)
  \/ /\ startsWith(url, <<"g", "i", "t", "@">>)
     /\ \E k \in 5..Len(url) :
          /\ url[k] = ":"
          /\ Len(url) - k >= 4
          /\ endsWith(url, <<"g", "i", "t">>)
  \/ startsWith(url, <<"g", "i", "t", ":", "/", "/">>) /\ endsWith(after(url, 6), <<".", "g", "i", "t">>)

\* repository URLs a request can carry
GitUrl == <<"h", "t", "t", "p", "s", ":", "/", "/", "h", "/", "r", ".", "g", "i", "t">>
Urls ==
  { GitUrl,
    <<"H", "T", "T", "P", ":", "/", "/", "h", "/", "r", ".", "G", "I", "T">>,
    <<"g", "i", "t", "@", "h", ":", "r", ".", "g", "i", "t">>,
    <<"g", "i", "t", "@", "h", ":", "r", "g", "i", "t">>,
    <<"g", "i", "t", ":", "/", "/", "h", "/", "r", ".", "g", "i", "t">>,
    <<"h", "t", "t", "p", "s", ":", "/", "/", "h", "/", "r">>,
    <<"f", "t", "p", ":", "/", "/", "h", "/", "r", ".", "g", "i", "t">>,
    <<"g", "i", "t", "@", "h", "/", "r", ".", "g", "i", "t">> }

\* the users collection
Users == Tenants
\* a userId no user has
Ghost == "ghost"

\* a repoUrl that is absent or the empty string
NoUrl == <<>>

\* request bodies: a userId or commit that is absent is Undefined
Bodies ==
  [repoUrl : Urls \cup {NoUrl}, commit : Commits, userId : Users \cup {Ghost, Undefined}]

\* the bodies of the requests that start a run
RunBodies == [repoUrl : {GitUrl}, commit : Commits, userId : Users]

NoBody == [repoUrl |-> NoUrl, commit |-> Undefined, userId |-> Undefined]

\* the schema requiring repoUrl only
validationError_repoUrlOnly(body) == body.repoUrl = NoUrl

\* embedRequestSchema.validate(req.body) reports an error
validationError(body) == body.repoUrl = NoUrl \/ body.userId = Undefined

\* res.status(status).json({success, jobId})
Respond(j, status, success, jobId) ==
  res' = [res EXCEPT ![j] = Append(@, [status |-> status, success |-> success,
                                       jobId |-> jobId])]

\* POST /embed arrives: schema validation and isGitUrl, then
\* await mongoService.userExists(userId)
Receive(j, body) ==
  /\ appState = "listening"
  /\ pc[j] = "none"
  /\ payload' = [payload EXCEPT ![j] = body]
  /\ IF validationError(body) \/ ~isGitUrl(body.repoUrl)
     THEN /\ Respond(j, 400, FALSE, Undefined)
          /\ pc' = [pc EXCEPT ![j] = "rejected"]
     ELSE /\ pc' = [pc EXCEPT ![j] = "userExists"]
          /\ UNCHANGED res
  /\ UNCHANGED <<buildVars, chunkerVars, remoteVars, adapterVars, appState, ledgerVars,
                 dirExists, tenant, commit, workDir, nChunks, idx, inflight, nVectors,
                 err, outcome, obsVars, started, qres>>

\* userExists resolved (false also when the lookup threw); unknown user: 404,
\* otherwise await mongoService.createJob(userId, repoUrl, commit)
UserChecked(j) ==
  /\ pc[j] = "userExists"
  /\ \E exists \in (IF payload[j].userId \in Users THEN BOOLEAN ELSE {FALSE}) :
       IF exists
       THEN /\ pc' = [pc EXCEPT ![j] = "createJob"]
            /\ UNCHANGED res
       ELSE /\ Respond(j, 404, FALSE, Undefined)
            /\ pc' = [pc EXCEPT ![j] = "rejected"]
  /\ UNCHANGED <<buildVars, chunkerVars, remoteVars, adapterVars, appState, ledgerVars,
                 dirExists, tenant, commit, workDir, nChunks, idx, inflight, nVectors,
                 err, outcome, obsVars, payload, started, qres>>

\* the handler starting the pipeline and leaving the answer for later
PostEmbed_answersLater(j) ==
  /\ pc[j] = "createJob"
  /\ tenant' = [tenant EXCEPT ![j] = payload[j].userId]
  /\ commit' = [commit EXCEPT ![j] = payload[j].commit]
  /\ job' = [job EXCEPT ![j] = createJob(j, payload[j].userId, payload[j].repoUrl,
                                          payload[j].commit)]
  /\ trace' = [trace EXCEPT ![j] = <<"queued">>]
  /\ started' = [started EXCEPT ![j] = @ + 1]
  /\ pc' = [pc EXCEPT ![j] = IF controller = "jobs" THEN "mkdir" ELSE "running0"]
  /\ UNCHANGED <<buildVars, chunkerVars, remoteVars, adapterVars, appState, dirExists,
                 workDir, nChunks, idx, inflight, nVectors, err, outcome, obsVars,
                 payload, res, qres>>

\* createJob resolved: the record is saved, the pipeline starts and 202 is
\* sent, all before the next await.  embed.controller.ts calls
\* processEmbedding without awaiting it, which runs up to its first await
\* (cloneRepository's mkdir); the inline handler sends 202 and then awaits
\* updateJobStatus(running).
PostEmbed(j) ==
  /\ pc[j] = "createJob"
  /\ tenant' = [tenant EXCEPT ![j] = payload[j].userId]
  /\ commit' = [commit EXCEPT ![j] = payload[j].commit]
  /\ job' = [job EXCEPT ![j] = createJob(j, payload[j].userId, payload[j].repoUrl,
                                          payload[j].commit)]
  /\ trace' = [trace EXCEPT ![j] = <<"queued">>]
  /\ started' = [started EXCEPT ![j] = @ + 1]
  /\ Respond(j, 202, TRUE, j)
  /\ pc' = [pc EXCEPT ![j] = IF controller = "jobs" THEN "mkdir" ELSE "running0"]
  /\ UNCHANGED <<buildVars, chunkerVars, remoteVars, adapterVars, appState, dirExists,
                 workDir, nChunks, idx, inflight, nVectors, err, outcome, obsVars,
                 payload, qres>>

\* GET /embed/:jobId answering with the record as it was created
publicFields_asCreated(rec) ==
  [jobId |-> rec.jobId, status |-> "queued", progress |-> 0, repoUrl |-> rec.repoUrl,
   createdAt |-> rec.createdAt, updatedAt |-> rec.createdAt, error |-> Undefined]

\* GET /embed/:jobId: the fields of the record the response carries
publicFields(rec) ==
  [jobId |-> rec.jobId, status |-> rec.status, progress |-> rec.progress,
   repoUrl |-> rec.repoUrl, createdAt |-> rec.createdAt, updatedAt |-> rec.updatedAt,
   error |-> rec.error]

\* GET /embed/:jobId: await mongoService.getJob(jobId) resolved and the
\* response is sent: 404 without a job, or 200 with the fields of the record
GetJob(j) ==
  /\ qres' = [qres EXCEPT ![j] =
       IF job[j].status = "none"
       THEN <<[status |-> 404, success |-> FALSE, job |-> <<>>]>>
       ELSE <<[status |-> 200, success |-> TRUE, job |-> <<publicFields(job[j])>>]>>]
  /\ UNCHANGED <<buildVars, chunkerVars, remoteVars, adapterVars, appState, pipelineVars,
                 payload, res, started>>

\* await mongoService.updateJobStatus(jobId, 'running')
SetRunning(j) ==
  /\ pc[j] = "running0"
  /\ LedgerWrite(j, "running", 0, Undefined)
  /\ pc' = [pc EXCEPT ![j] = IF controller = "jobs" THEN "initial" ELSE "mkdir"]
  /\ UNCHANGED <<buildVars, chunkerVars, apiVars, remoteVars, adapterVars, appState, dirExists, tenant, commit,
                 workDir, nChunks, idx, inflight, nVectors, err, outcome, obsVars>>

\* await mongoService.updateJobStatus(jobId, 'running', INITIAL_PROGRESS)
SetInitial(j) ==
  /\ pc[j] = "initial"
  /\ LedgerWrite(j, "running",
                 IF controller = "jobs" THEN INITIAL_PROGRESS ELSE INLINE_INITIAL_PROGRESS,
                 Undefined)
  /\ pc' = [pc EXCEPT ![j] = "walk"]
  /\ UNCHANGED <<buildVars, chunkerVars, apiVars, remoteVars, adapterVars, appState, dirExists, tenant, commit,
                 workDir, nChunks, idx, inflight, nVectors, err, outcome, obsVars>>

\* const chunks = await walkAndChunkDirectory(workDir); it never throws.
\* The repository has at most `most` chunks.
Walk(j, most) ==
  /\ pc[j] = "walk"
  /\ \E n \in 0..most :
       /\ nChunks' = [nChunks EXCEPT ![j] = n]
       /\ pc' = [pc EXCEPT ![j] = IF n = 0 THEN "empty" ELSE "chunked"]
  /\ walked' = [walked EXCEPT ![j] = TRUE]
  /\ UNCHANGED <<buildVars, chunkerVars, apiVars, remoteVars, adapterVars, appState, ledgerVars, dirExists, tenant,
                 commit, workDir, idx, inflight, nVectors, err, outcome, embedCalls,
                 embedFailed, upsertCalls, rmCalls, rmOk>>

\* zero chunks recorded as a failure
NoChunks_failed(j) ==
  /\ pc[j] = "empty"
  /\ LedgerWrite(j, "failed", 0, "No code chunks found in repository")
  /\ pc' = [pc EXCEPT ![j] = "finally"]
  /\ UNCHANGED <<buildVars, chunkerVars, apiVars, remoteVars, adapterVars, appState, dirExists, tenant, commit,
                 workDir, nChunks, idx, inflight, nVectors, err, outcome, obsVars>>

\* chunks.length === 0: await updateJobStatus(jobId, 'succeeded', 100); return
NoChunks(j) ==
  /\ pc[j] = "empty"
  /\ LedgerWrite(j, "succeeded", FINAL_PROGRESS, Undefined)
  /\ pc' = [pc EXCEPT ![j] = "finally"]
  /\ UNCHANGED <<buildVars, chunkerVars, apiVars, remoteVars, adapterVars, appState, dirExists, tenant, commit,
                 workDir, nChunks, idx, inflight, nVectors, err, outcome, obsVars>>

\* await updateJobStatus(jobId, 'running', CHUNKING_PROGRESS), then the first
\* batch is issued (processEmbedding) or the first chunk is embedded (inline)
Chunked(j) ==
  /\ pc[j] = "chunked"
  /\ LedgerWrite(j, "running",
                 IF controller = "jobs" THEN CHUNKING_PROGRESS ELSE INLINE_CHUNKING_PROGRESS,
                 Undefined)
  /\ idx' = [idx EXCEPT ![j] = 0]
  /\ UNCHANGED nChunks
  /\ IF controller = "jobs"
     THEN IssueBatch(j, 0)
     ELSE /\ pc' = [pc EXCEPT ![j] = "embed"]
          /\ UNCHANGED <<inflight, embedCalls>>
  /\ UNCHANGED <<buildVars, chunkerVars, apiVars, remoteVars, adapterVars, appState, dirExists, tenant, commit,
                 workDir, nVectors, err, outcome, walked, embedFailed, upsertCalls, rmCalls, rmOk>>

\* processChunk reporting progress itself, per chunk
processChunk_reportsProgress(j) ==
  /\ inflight[j] > 0
  /\ inflight' = [inflight EXCEPT ![j] = @ - 1]
  /\ \/ /\ embedFailed' = [embedFailed EXCEPT ![j] = TRUE]
        /\ IF pc[j] = "await"
           THEN /\ pc' = [pc EXCEPT ![j] = "catch"]
                /\ \E m \in {"", "embedding failed"} : err' = [err EXCEPT ![j] = m]
           ELSE UNCHANGED <<pc, err>>
        /\ UNCHANGED <<nVectors, ledgerVars>>
     \/ /\ IF pc[j] = "await" /\ inflight[j] = 1
           THEN /\ pc' = [pc EXCEPT ![j] = "progress"]
                /\ nVectors' = [nVectors EXCEPT ![j] = Min(idx[j] + BATCH_SIZE, nChunks[j])]
           ELSE UNCHANGED <<pc, nVectors>>
        /\ LedgerWrite(j, "running",
                       updateProgress(CHUNKING_PROGRESS, embedCalls[j] - inflight[j] + 1,
                                      nChunks[j]),
                       Undefined)
        /\ UNCHANGED <<err, embedFailed>>
  /\ UNCHANGED <<buildVars, chunkerVars, apiVars, remoteVars, adapterVars, appState, dirExists, tenant,
                 commit, workDir, nChunks, idx, outcome, walked, embedCalls, upsertCalls, rmCalls,
                 rmOk>>

\* a rejected call skipped: the batch goes on without its chunk
processChunk_skipsFailed(j) ==
  /\ inflight[j] > 0
  /\ inflight' = [inflight EXCEPT ![j] = @ - 1]
  /\ \E rejected \in BOOLEAN :
       embedFailed' = [embedFailed EXCEPT ![j] = @ \/ rejected]
  /\ IF pc[j] = "await" /\ inflight[j] = 1
     THEN /\ pc' = [pc EXCEPT ![j] = "progress"]
          /\ nVectors' = [nVectors EXCEPT ![j] = Min(idx[j] + BATCH_SIZE, nChunks[j])]
     ELSE UNCHANGED <<pc, nVectors>>
  /\ UNCHANGED <<buildVars, chunkerVars, apiVars, remoteVars, adapterVars, appState, ledgerVars, dirExists, tenant,
                 commit, workDir, nChunks, idx, outcome, walked, embedCalls, upsertCalls, rmCalls,
                 rmOk, err>>

\* the batch taken as done when the first of its calls resolves
processChunk_firstResolves(j) ==
  /\ inflight[j] > 0
  /\ inflight' = [inflight EXCEPT ![j] = @ - 1]
  /\ \/ /\ embedFailed' = [embedFailed EXCEPT ![j] = TRUE]
        /\ IF pc[j] = "await"
           THEN /\ pc' = [pc EXCEPT ![j] = "catch"]
                /\ \E m \in {"", "embedding failed"} : err' = [err EXCEPT ![j] = m]
           ELSE UNCHANGED <<pc, err>>
        /\ UNCHANGED nVectors
     \/ /\ IF pc[j] = "await"
           THEN /\ pc' = [pc EXCEPT ![j] = "progress"]
                /\ nVectors' = [nVectors EXCEPT ![j] = Min(idx[j] + BATCH_SIZE, nChunks[j])]
           ELSE UNCHANGED <<pc, nVectors>>
        /\ UNCHANGED <<err, embedFailed>>
  /\ UNCHANGED <<buildVars, chunkerVars, apiVars, remoteVars, adapterVars, appState, ledgerVars, dirExists, tenant,
                 commit, workDir, nChunks, idx, outcome, walked, embedCalls, upsertCalls, rmCalls,
                 rmOk>>

\* processChunk: one generateEmbedding call of the current or of an earlier
\* batch resolves.  Promise.all rejects on the first rejection and resolves
\* when the last call of the batch has resolved; calls that resolve after
\* the rejection only log.
processChunk(j) ==
  /\ inflight[j] > 0
  /\ inflight' = [inflight EXCEPT ![j] = @ - 1]
  /\ \/ \* rejected
        /\ embedFailed' = [embedFailed EXCEPT ![j] = TRUE]
        /\ IF pc[j] = "await"
           THEN /\ pc' = [pc EXCEPT ![j] = "catch"]
                /\ \E m \in {"", "embedding failed"} : err' = [err EXCEPT ![j] = m]
           ELSE UNCHANGED <<pc, err>>
        /\ UNCHANGED nVectors
     \/ \* resolved with an embedding
        /\ IF pc[j] = "await" /\ inflight[j] = 1
           THEN /\ pc' = [pc EXCEPT ![j] = "progress"]
                /\ nVectors' = [nVectors EXCEPT ![j] = Min(idx[j] + BATCH_SIZE, nChunks[j])]
           ELSE UNCHANGED <<pc, nVectors>>
        /\ UNCHANGED <<err, embedFailed>>
  /\ UNCHANGED <<buildVars, chunkerVars, apiVars, remoteVars, adapterVars, appState, ledgerVars, dirExists, tenant,
                 commit, workDir, nChunks, idx, outcome, walked, embedCalls, upsertCalls, rmCalls,
                 rmOk>>

\* processChunksInBatches: await updateProgress(jobId, CHUNKING_PROGRESS,
\* i + batch.length, chunks.length); then the next batch, or upsertVectors
BatchProgress(j) ==
  /\ pc[j] = "progress"
  /\ LedgerWrite(j, "running",
                 updateProgress(CHUNKING_PROGRESS, nVectors[j], nChunks[j]), Undefined)
  /\ idx' = [idx EXCEPT ![j] = @ + BATCH_SIZE]
  /\ UNCHANGED <<nChunks, nVectors>>
  /\ IF idx[j] + BATCH_SIZE < nChunks[j]
     THEN /\ IssueBatch(j, idx[j] + BATCH_SIZE)
          /\ UNCHANGED <<adapterVars, upsertCalls>>
     ELSE /\ CallUpsert(j)
          /\ UNCHANGED <<inflight, embedCalls>>
  /\ UNCHANGED <<buildVars, chunkerVars, apiVars, remoteVars, appState, dirExists, tenant, commit, workDir, err,
                 outcome, walked, embedFailed, rmCalls, rmOk>>

\* inline pipeline: await generateEmbedding(chunk.content) for chunk i
InlineEmbed(j) ==
  /\ pc[j] = "embed"
  /\ embedCalls' = [embedCalls EXCEPT ![j] = @ + 1]
  /\ \/ /\ embedFailed' = [embedFailed EXCEPT ![j] = TRUE]
        /\ pc' = [pc EXCEPT ![j] = "catch"]
        /\ \E m \in {"", "embedding failed"} : err' = [err EXCEPT ![j] = m]
        /\ UNCHANGED <<nVectors, idx>>
     \/ /\ nVectors' = [nVectors EXCEPT ![j] = @ + 1]
        /\ IF idx[j] % INLINE_PROGRESS_EVERY = 0 \/ idx[j] = nChunks[j] - 1
           THEN /\ pc' = [pc EXCEPT ![j] = "iprogress"]
                /\ UNCHANGED idx
           ELSE /\ idx' = [idx EXCEPT ![j] = @ + 1]
                /\ UNCHANGED pc
        /\ UNCHANGED <<err, embedFailed>>
  /\ UNCHANGED <<buildVars, chunkerVars, apiVars, remoteVars, adapterVars, appState, ledgerVars, dirExists, tenant,
                 commit, workDir, nChunks, inflight, outcome, walked, upsertCalls, rmCalls, rmOk>>

\* inline pipeline: await updateJobStatus(jobId, 'running', progress); then
\* the next chunk, or pineconeService.upsert(vectors)
InlineProgress(j) ==
  /\ pc[j] = "iprogress"
  /\ LedgerWrite(j, "running", inlineProgress(idx[j], nChunks[j]), Undefined)
  /\ idx' = [idx EXCEPT ![j] = @ + 1]
  /\ UNCHANGED <<nChunks, nVectors>>
  /\ IF idx[j] + 1 < nChunks[j]
     THEN /\ pc' = [pc EXCEPT ![j] = "embed"]
          /\ UNCHANGED <<adapterVars, upsertCalls>>
     ELSE CallUpsert(j)
  /\ UNCHANGED <<buildVars, chunkerVars, apiVars, remoteVars, appState, dirExists, tenant, commit, workDir,
                 inflight, err, outcome, walked, embedCalls, embedFailed, rmCalls, rmOk>>

\* pineconeService.upsert(vectors) has returned or thrown
UpsertReturned(j) ==
  /\ pc[j] = "upsert"
  /\ apc[j] = "ret"
  /\ IF ares[j].st = "ok"
     THEN /\ pc' = [pc EXCEPT ![j] = "succeed"]
          /\ UNCHANGED err
     ELSE /\ pc' = [pc EXCEPT ![j] = "catch"]
          /\ err' = [err EXCEPT ![j] = ares[j].msg]
  /\ AdapterReset(j)
  /\ UNCHANGED <<buildVars, chunkerVars, apiVars, remoteVars, initialized, appState, ledgerVars, dirExists, tenant,
                 commit, workDir, nChunks, idx, inflight, nVectors, outcome, obsVars>>

\* await updateJobStatus(jobId, 'succeeded', FINAL_PROGRESS)
Succeed(j) ==
  /\ pc[j] = "succeed"
  /\ LedgerWrite(j, "succeeded", FINAL_PROGRESS, Undefined)
  /\ pc' = [pc EXCEPT ![j] = "finally"]
  /\ UNCHANGED <<buildVars, chunkerVars, apiVars, remoteVars, adapterVars, appState, dirExists, tenant, commit,
                 workDir, nChunks, idx, inflight, nVectors, err, outcome, obsVars>>

\* the catch block without the fallback text
failureMessage_raw(e) == e

\* the message the catch block records
failureMessage(e) == OrElse(e, "Unknown error during embedding process")

\* catch: await updateJobStatus(jobId, 'failed', 0, message);
\* processEmbedding then rethrows, the inline pipeline does not
Catch(j) ==
  /\ pc[j] = "catch"
  /\ LedgerWrite(j, "failed", 0, failureMessage(err[j]))
  /\ pc' = [pc EXCEPT ![j] = "finally"]
  /\ UNCHANGED <<buildVars, chunkerVars, apiVars, remoteVars, adapterVars, appState, dirExists, tenant, commit,
                 workDir, nChunks, idx, inflight, nVectors, err, outcome, obsVars>>

\* the cleanup at the end of the try block instead of in finally
Finally_onSuccessOnly(j) ==
  /\ pc[j] = "finally"
  /\ IF err[j] = Undefined /\ (controller = "jobs" \/ workDir[j])
     THEN cleanWorkingDirectory(j)
     ELSE UNCHANGED <<dirExists, rmCalls, rmOk>>
  /\ pc' = [pc EXCEPT ![j] = "done"]
  /\ outcome' = [outcome EXCEPT ![j] =
       IF controller = "jobs" /\ err[j] # Undefined THEN "thrown" ELSE "returned"]
  /\ UNCHANGED <<buildVars, chunkerVars, apiVars, remoteVars, adapterVars, appState, ledgerVars, tenant, commit,
                 workDir, nChunks, idx, inflight, nVectors, err, walked, embedCalls,
                 embedFailed, upsertCalls>>

\* a finally block that lets the failure of the removal escape: the record
\* is rewritten as failed and the error is thrown to the caller
Finally_cleanupErrorRaised(j) ==
  /\ pc[j] = "finally"
  /\ IF controller = "jobs" \/ workDir[j]
     THEN cleanWorkingDirectory(j)
     ELSE UNCHANGED <<dirExists, rmCalls, rmOk>>
  /\ pc' = [pc EXCEPT ![j] = "done"]
  /\ IF rmOk'[j]
     THEN /\ outcome' = [outcome EXCEPT ![j] =
                IF controller = "jobs" /\ err[j] # Undefined THEN "thrown" ELSE "returned"]
          /\ UNCHANGED ledgerVars
     ELSE /\ outcome' = [outcome EXCEPT ![j] = "thrown"]
          /\ LedgerWrite(j, "failed", 0, "Unknown error during cleanup")
  /\ UNCHANGED <<buildVars, chunkerVars, apiVars, remoteVars, adapterVars, appState, tenant, commit,
                 workDir, nChunks, idx, inflight, nVectors, err, walked, embedCalls,
                 embedFailed, upsertCalls>>

\* finally: await gitService.cleanWorkingDirectory(workDir); the inline
\* pipeline does it only if workDir was assigned
Finally(j) ==
  /\ pc[j] = "finally"
  /\ IF controller = "jobs" \/ workDir[j]
     THEN cleanWorkingDirectory(j)
     ELSE UNCHANGED <<dirExists, rmCalls, rmOk>>
  /\ pc' = [pc EXCEPT ![j] = "done"]
  /\ outcome' = [outcome EXCEPT ![j] =
       IF controller = "jobs" /\ err[j] # Undefined THEN "thrown" ELSE "returned"]
  /\ UNCHANGED <<buildVars, chunkerVars, apiVars, remoteVars, adapterVars, appState, ledgerVars, tenant, commit,
                 workDir, nChunks, idx, inflight, nVectors, err, walked, embedCalls,
                 embedFailed, upsertCalls>>

\* the adapter works on the upsert of job j
JobAdapterStep(j) ==
  /\ AdapterStep(j)
  /\ UNCHANGED <<buildVars, chunkerVars, apiVars, appState, pipelineVars>>

(***************************************************************************)
(* Application start (startApp)                                             *)
(***************************************************************************)
\* startApp: await pineconeService.init() is entered
StartApp ==
  /\ appState = "starting"
  /\ AdapterCall(App, "init", NoArg)
  /\ appState' = "init"
  /\ UNCHANGED <<buildVars, chunkerVars, apiVars, remoteVars, pipelineVars>>

AppInitStep ==
  /\ AdapterStep(App)
  /\ UNCHANGED <<buildVars, chunkerVars, apiVars, appState, pipelineVars>>

\* init returned: app.listen; init threw: process.exit(1)
AppInitReturned ==
  /\ appState = "init"
  /\ apc[App] = "ret"
  /\ appState' = IF ares[App].st = "ok" THEN "listening" ELSE "exited"
  /\ AdapterReset(App)
  /\ UNCHANGED <<buildVars, chunkerVars, apiVars, remoteVars, initialized, pipelineVars>>

(***************************************************************************)
(* Specification of the service running one job                             *)
(***************************************************************************)
InitBuild ==
  /\ controller \in {"jobs", "inline"}
  /\ adapter \in {"namespaced", "flat"}

InitRemote ==
  /\ indexState \in {"absent", "ready"}
  /\ indexDim \in IF indexState = "absent" THEN {INDEX_DIMENSION}
                  ELSE {INDEX_DIMENSION, OtherDimension}
  /\ indexMetric \in IF indexState = "absent" THEN {INDEX_METRIC}
                     ELSE {INDEX_METRIC, "euclidean"}
  /\ store = [ns \in Namespaces |-> {}]

InitAdapter ==
  /\ initialized = FALSE
  /\ aop = [p \in Procs |-> "idle"]
  /\ apc = [p \in Procs |-> "idle"]
  /\ aretries = [p \in Procs |-> 0]
  /\ agroups = [p \in Procs |-> <<>>]
  /\ abi = [p \in Procs |-> 0]
  /\ aarg = [p \in Procs |-> NoArg]
  /\ awas = [p \in Procs |-> FALSE]
  /\ apollErrors = [p \in Procs |-> 0]
  /\ ares = [p \in Procs |-> NoRes]
  /\ aout = [p \in Procs |-> {}]
  /\ rlog = [p \in Procs |-> <<>>]

InitPipeline ==
  /\ job = [j \in Jobs |-> NoJob]
  /\ trace = [j \in Jobs |-> <<>>]
  /\ dirExists = [d \in WorkDirs |-> FALSE]
  /\ pc = [j \in Jobs |-> "none"]
  /\ tenant = [j \in Jobs |-> Undefined]
  /\ commit = [j \in Jobs |-> Undefined]
  /\ workDir = [j \in Jobs |-> FALSE]
  /\ nChunks = [j \in Jobs |-> 0]
  /\ idx = [j \in Jobs |-> 0]
  /\ inflight = [j \in Jobs |-> 0]
  /\ nVectors = [j \in Jobs |-> 0]
  /\ err = [j \in Jobs |-> Undefined]
  /\ outcome = [j \in Jobs |-> "pending"]
  /\ walked = [j \in Jobs |-> FALSE]
  /\ embedCalls = [j \in Jobs |-> 0]
  /\ embedFailed = [j \in Jobs |-> FALSE]
  /\ upsertCalls = [j \in Jobs |-> 0]
  /\ rmCalls = [j \in Jobs |-> 0]
  /\ rmOk = [j \in Jobs |-> TRUE]
  /\ payload = [j \in Jobs |-> NoBody]
  /\ res = [j \in Jobs |-> <<>>]
  /\ started = [j \in Jobs |-> 0]
  /\ qres = [j \in Jobs |-> <<>>]

\* no walk is modelled step by step: Walk stands for it
InitNoWalk ==
  /\ kpc = "idle"
  /\ tree = <<>>
  /\ chunkSize = DEFAULT_CHUNK_SIZE
  /\ lines = <<>>
  /\ li = 0
  /\ currentChunk = <<>>
  /\ lineCount = 0
  /\ chunkIndex = 0
  /\ startLine = 1
  /\ fileChunks = <<>>
  /\ chunks = <<>>
  /\ visited = <<>>

Init ==
  /\ InitBuild
  /\ InitRemote
  /\ InitAdapter
  /\ InitPipeline
  /\ InitNoWalk
  /\ appState = "starting"

\* the steps of a run between the handler and the adapter, on a repository
\* of at most `most` chunks
RunStep(j, most) ==
  \/ Mkdir(j)
  \/ GitClone(j)
  \/ Checkout(j)
  \/ AcquireFailed(j)
  \/ SetRunning(j)
  \/ SetInitial(j)
  \/ Walk(j, most)
  \/ NoChunks(j)
  \/ Chunked(j)
  \/ processChunk(j)
  \/ BatchProgress(j)
  \/ InlineEmbed(j)
  \/ InlineProgress(j)
  \/ UpsertReturned(j)
  \/ Succeed(j)
  \/ Catch(j)
  \/ Finally(j)

PipelineStep(j) ==
  \/ \E body \in RunBodies : Receive(j, body)
  \/ UserChecked(j)
  \/ PostEmbed(j)
  \/ RunStep(j, MaxChunks)
  \/ JobAdapterStep(j)

Next ==
  \/ StartApp
  \/ AppInitStep
  \/ AppInitReturned
  \/ IndexBecomesReady
  \/ \E j \in SoloJobs : PipelineStep(j)

Spec == Init /\ [][Next]_vars

(***************************************************************************)
(* Properties of a pipeline run                                             *)
(***************************************************************************)
Terminal == {"succeeded", "failed"}
Ended(j) == pc[j] = "done"

\* C1: whenever a run has ended (returned or thrown), its job record went
\* queued -> running -> succeeded|failed and is in a terminal status.
\* Stated as the claim has it; processEmbedding violates it when
\* cloneRepository fails.
C1_EndedRunIsTerminal ==
  \A j \in Jobs :
    Ended(j) => /\ job[j].status \in Terminal
                /\ trace[j] \in {<<"queued", "running", "succeeded">>,
                                 <<"queued", "running", "failed">>}

C3_TerminalImmutable ==
  [][\A j \in Jobs : job[j].status \in Terminal => job'[j] = job[j]]_vars

\* C3 witness: the record is failed, catch and finally have run, and calls
\* of the rejected batch are still to resolve.
C3_Witness ==
  \E j \in Jobs : Ended(j) /\ job[j].status = "failed" /\ inflight[j] > 0 /\ rmCalls[j] > 0

\* C4: every progress value in the ledger is an integer in 0..100, progress
\* never decreases from one running write to the next, and a succeeded
\* record has progress 100.
C4_ProgressMonotone ==
  /\ [](\A j \in Jobs : job[j].progress \in 0..100)
  /\ [][\A j \in Jobs : (job[j].status = "running" /\ job'[j].status = "running")
                           => job'[j].progress >= job[j].progress]_vars
  /\ [](\A j \in Jobs : job[j].status = "succeeded" => job[j].progress = 100)

\* C4 witness: a run over more than one batch has succeeded.
C4_Witness ==
  \E j \in Jobs : Ended(j) /\ job[j].status = "succeeded" /\ nChunks[j] > BATCH_SIZE

\* C5: the error field of a record is set exactly when its status is
\* failed, and then it is not empty.
C5_ErrorIffFailed ==
  \A j \in Jobs :
    job[j].status # "none" =>
      /\ (job[j].error # Undefined) <=> (job[j].status = "failed")
      /\ job[j].error # ""

\* C5 witness: a failure whose error has an empty message has been recorded.
C5_Witness ==
  \E j \in Jobs : job[j].status = "failed" /\ err[j] = ""

\* C6: a run whose walk yields zero chunks issues no embedding call and no
\* upsert call, and ends succeeded with progress 100 by queued -> running ->
\* succeeded.
C6_ZeroChunks ==
  \A j \in Jobs :
    (walked[j] /\ nChunks[j] = 0) =>
      /\ embedCalls[j] = 0
      /\ upsertCalls[j] = 0
      /\ Ended(j) => /\ job[j].status = "succeeded"
                     /\ job[j].progress = 100
                     /\ job[j].error = Undefined
                     /\ trace[j] = <<"queued", "running", "succeeded">>
                     /\ outcome[j] = "returned"

\* C6 witness: a run over zero chunks has ended.
C6_Witness ==
  \E j \in Jobs : Ended(j) /\ walked[j] /\ nChunks[j] = 0

\* C7 as the claim has it: after an embedding failure the run ends failed
\* with a non-empty error and the working directory is gone.
C7_EmbedFailureDirGone ==
  \A j \in Jobs :
    (Ended(j) /\ embedFailed[j]) =>
      /\ job[j].status = "failed"
      /\ job[j].error \notin {Undefined, ""}
      /\ ~dirExists[workDirOf(j)]

\* C7 amended: after an embedding failure the run ends failed with a
\* non-empty error; the working directory is released after the failure is
\* recorded, and it is gone unless the removal itself failed.
C7_EmbedFailureReleased ==
  \A j \in Jobs :
    /\ (embedFailed[j] /\ rmCalls[j] > 0) => job[j].status = "failed"
    /\ (Ended(j) /\ embedFailed[j]) =>
         /\ job[j].status = "failed"
         /\ job[j].error \notin {Undefined, ""}
         /\ rmCalls[j] > 0
         /\ rmOk[j] => ~dirExists[workDirOf(j)]

\* C7 witness: a run with a rejected embedding call has ended and its
\* directory has been removed.
C7_Witness ==
  \E j \in Jobs : Ended(j) /\ embedFailed[j] /\ rmCalls[j] > 0 /\ ~dirExists[workDirOf(j)]

\* C8 as the claim has it: once a run has ended its working directory does
\* not exist.
C8_DirGoneWhenEnded ==
  \A j \in Jobs : Ended(j) => ~dirExists[workDirOf(j)]

\* C8 amended: on every path a removal of the working directory has been
\* attempted when the run ends, and the directory is gone unless the last
\* removal failed.
C8_ReleaseAttempted ==
  \A j \in Jobs :
    Ended(j) => /\ rmCalls[j] > 0
                /\ rmOk[j] => ~dirExists[workDirOf(j)]

\* C8 witness: a run whose acquisition failed after the directory was
\* created has ended with the directory removed.
C8_Witness ==
  \E j \in Jobs : Ended(j) /\ ~walked[j] /\ err[j] = "clone failed" /\ ~dirExists[workDirOf(j)]

(***************************************************************************)
(* Specification of the adapter used directly by its callers               *)
(***************************************************************************)
\* a vector of tenant userId as a direct caller passes it (id, values and
\* the metadata fields side by side)
vectorOf(id, userId, rev) ==
  [id |-> id,
   values |-> generateEmbedding(id),
   repoUrl |-> GitUrl,
   filePath |-> <<"file", 0>>,
   chunkIndex |-> 0,
   commit |-> rev,
   userId |-> userId,
   startLine |-> 1,
   endLine |-> DEFAULT_CHUNK_SIZE]

\* the records callers pass to upsert
VecUniverse ==
  { vectorOf(<<"v", 1>>, "A", "c1"),
    vectorOf(<<"v", 2>>, "B", Undefined),
    vectorOf(<<"v", 3>>, "A", "") }

\* a list that needs more than one batch for a tenant and has a second
\* tenant after it: one batch and a record of tenant A, then a record of B
LongUpsert ==
  [k \in 1..(PINECONE_BATCH_SIZE + 2) |->
     vectorOf(<<"w", k>>, IF k <= PINECONE_BATCH_SIZE + 1 THEN "A" ELSE "B", "c1")]

\* vector lists of at most MaxVecs records, and the long list
ClientInputs ==
  UNION { [1..n -> VecUniverse] : n \in 0..MaxVecs } \cup {LongUpsert}

\* pineconeService.upsert(vectors) is called
ClientUpsert(c) ==
  /\ \E vs \in ClientInputs : AdapterCall(c, "upsert", [NoArg EXCEPT !.vectors = vs])
  /\ UNCHANGED <<buildVars, chunkerVars, apiVars, remoteVars, appState, pipelineVars>>

\* pineconeService.query(...) is called on behalf of tenant u; the flat
\* adapter takes no userId, only the optional metadata filter
ClientQuery(c) ==
  /\ \E u \in Tenants, f \in {Undefined} \cup Tenants :
       AdapterCall(c, "query", [NoArg EXCEPT !.userId = u, !.filter = f])
  /\ UNCHANGED <<buildVars, chunkerVars, apiVars, remoteVars, appState, pipelineVars>>

\* pineconeService.deleteUserVectors(userId) is called (namespaced adapter)
ClientDelete(c) ==
  /\ adapter = "namespaced"
  /\ \E u \in Tenants : AdapterCall(c, "delete", [NoArg EXCEPT !.userId = u])
  /\ UNCHANGED <<buildVars, chunkerVars, apiVars, remoteVars, appState, pipelineVars>>

\* pineconeService.isHealthy() is called
ClientHealth(c) ==
  /\ AdapterCall(c, "health", NoArg)
  /\ UNCHANGED <<buildVars, chunkerVars, apiVars, remoteVars, appState, pipelineVars>>

\* pineconeService.init() is called
ClientInit(c) ==
  /\ AdapterCall(c, "init", NoArg)
  /\ UNCHANGED <<buildVars, chunkerVars, apiVars, remoteVars, appState, pipelineVars>>

\* the adapter works on the call of c
ClientAdapterStep(c) ==
  /\ \/ AdapterStep(c)
     \/ Query(c)
     \/ deleteUserVectors(c)
     \/ isHealthy(c)
  /\ UNCHANGED <<buildVars, chunkerVars, apiVars, appState, pipelineVars>>

\* the call of c has returned or thrown
ClientReturn(c) ==
  /\ apc[c] = "ret"
  /\ AdapterReset(c)
  /\ UNCHANGED <<buildVars, chunkerVars, apiVars, remoteVars, initialized, appState, pipelineVars>>

InitAdapterSpec ==
  /\ controller = "jobs"
  /\ adapter \in {"namespaced", "flat"}
  /\ InitRemote
  /\ InitAdapter
  /\ InitPipeline
  /\ InitNoWalk
  /\ appState = "none"

NextAdapter ==
  \/ IndexBecomesReady
  \/ \E c \in SoloClients :
       \/ ClientUpsert(c)
       \/ ClientQuery(c)
       \/ ClientDelete(c)
       \/ ClientHealth(c)
       \/ ClientInit(c)
       \/ ClientAdapterStep(c)
       \/ ClientReturn(c)

SpecAdapter == InitAdapterSpec /\ [][NextAdapter]_vars

(***************************************************************************)
(* Properties of the adapter                                                *)
(***************************************************************************)
\* C9: tenant isolation.  Every stored record lies in the namespace of the
\* tenant its metadata names, and a query made for a tenant returns only
\* records of that tenant.  Stated as the claim has it; the adapter of
\* services/pinecone.service.ts, which writes and queries through the
\* default namespace, violates it.
C9_TenantIsolation ==
  /\ \A ns \in Namespaces : \A r \in store[ns] : ns = getNamespaceForUser(r.userId)
  /\ \A p \in Procs :
       (aop[p] = "query" /\ apc[p] = "ret") =>
         \A r \in aout[p] : r.userId = aarg[p].userId

\* C10: upsert of an empty list makes no remote call and returns
\* successfully, whether or not the adapter is initialized.  Stated as the
\* claim has it; the adapter of services/pinecone.service.ts runs init()
\* before it looks at the list.
C10_EmptyUpsertNoRemoteCall ==
  \A p \in Procs :
    (aop[p] = "upsert" /\ aarg[p].vectors = <<>>) =>
      /\ rlog[p] = <<>>
      /\ apc[p] = "ret" => ares[p].st = "ok"

\* the write requests the current call of p has sent
upsertAttempts(p) == Cardinality({k \in DOMAIN rlog[p] : rlog[p][k] = "upsert"})

\* the batches the call of p sends when none of them fails
planOf(p) ==
  upsertPlan(IF adapter = "namespaced" THEN vectorsByUser(aarg[p].vectors)
             ELSE flatGroups(aarg[p].vectors))

\* C11: when a batch write fails inside an upsert call, the call ends at
\* once with that error (no later batch of any tenant is sent, neither then
\* nor after the call has ended), the failing step changes nothing in the
\* store, and every batch written before it is in the store.
C11_BatchFailureAborts ==
  /\ [](\A p \in Procs :
          (aop[p] = "upsert" /\ apc[p] = "ret" /\ upsertAttempts(p) > 0
             /\ ares[p].st # "ok")
            => /\ ares[p].st = "err"
               /\ upsertAttempts(p) <= Len(planOf(p))
               /\ \A i \in 1..(upsertAttempts(p) - 1) :
                    SeqToSet(planOf(p)[i].batch) \subseteq store[planOf(p)[i].ns])
  /\ [][\A p \in Procs :
          (apc[p] = "batch" /\ ares'[p].st # "none" /\ ares'[p].st # "ok")
            => (store' = store /\ apc'[p] = "ret" /\ ares'[p].st = "err")]_vars
  /\ [][\A p \in Procs :
          (aop[p] = "upsert" /\ apc[p] = "ret")
            => (store' = store /\ rlog'[p] \in {rlog[p], <<>>})]_vars

\* C11 witness: an upsert has ended with an error after it wrote a batch,
\* with batches of the same and of another tenant never sent.
C11_Witness ==
  \E p \in Procs :
    /\ aop[p] = "upsert" /\ apc[p] = "ret" /\ ares[p].st = "err"
    /\ upsertAttempts(p) = 2
    /\ Len(planOf(p)) > 2
    /\ SeqToSet(planOf(p)[1].batch) \subseteq store[planOf(p)[1].ns]

(***************************************************************************)
(* The batch boundary on failure                                            *)
(***************************************************************************)
\* C12: once the record of a job is failed, or its working directory has
\* been released, no embedding call of the job is still in flight.  Stated
\* as the claim has it; processChunksInBatches awaits Promise.all, which
\* rejects with the first rejected call while the other calls of the batch
\* are still in flight.
C12_NoCallInFlightOnceFailed ==
  \A j \in Jobs :
    (job[j].status = "failed" \/ rmCalls[j] > 0) => inflight[j] = 0

(***************************************************************************)
(* Specification of callers racing on an adapter that is not initialized:   *)
(* the routers mounted on an express app without startApp (as               *)
(* tests/e2e/api.test.ts mounts them), or startApp next to them             *)
(***************************************************************************)
\* the list a racing caller upserts
RaceInputs == {<<vectorOf(<<"v", 1>>, "A", "c1")>>}

\* pineconeService.upsert(vectors) is called by a racing caller
RaceUpsert(c) ==
  /\ \E vs \in RaceInputs : AdapterCall(c, "upsert", [NoArg EXCEPT !.vectors = vs])
  /\ UNCHANGED <<buildVars, chunkerVars, apiVars, remoteVars, appState, pipelineVars>>

NextRace ==
  \/ IndexBecomesReady
  \/ \E c \in Clients :
       \/ ClientInit(c)
       \/ ClientHealth(c)
       \/ RaceUpsert(c)
       \/ ClientAdapterStep(c)
       \/ ClientReturn(c)

SpecRace == InitAdapterSpec /\ [][NextRace]_vars

\* C13: when callers start initialization before the first one completes
\* and the index is absent, none of them fails because another caller
\* created the index meanwhile.  Stated as the claim has it; init is not
\* guarded, so the caller that loses the race has its createIndex rejected
\* and its operation fails.
C13_RacingInitSafe ==
  \A p \in Procs :
    (apc[p] = "ret" /\ \E k \in DOMAIN rlog[p] : rlog[p][k] = "createIndex")
      => ares[p].msg # "index already exists"

(***************************************************************************)
(* Properties of initialization                                             *)
(***************************************************************************)
\* the requests of one kind the current call of p has sent
requestsOf(p, call) == Cardinality({k \in DOMAIN rlog[p] : rlog[p][k] = call})

\* C14: when none of the MAX_RETRIES readiness polls of a newly created
\* index reports it ready, the operation that triggered initialization ends
\* with an error (false for the health check) after exactly that many
\* polls, the adapter is not initialized, and no upsert request was sent.
C14_PollExhaustionFails ==
  \A p \in Procs :
    aretries[p] = MAX_RETRIES =>
      /\ apc[p] = "ret"
      /\ ares[p].st = IF aop[p] = "health" THEN "false" ELSE "err"
      /\ ~initialized
      /\ requestsOf(p, "createIndex") = 1
      /\ requestsOf(p, "describeIndex") = MAX_RETRIES
      /\ requestsOf(p, "upsert") = 0

\* C14 witness: an upsert that triggered initialization has ended after the
\* last poll found the index not ready.
C14_Witness ==
  \E p \in Procs :
    aop[p] = "upsert" /\ apc[p] = "ret" /\ aretries[p] = MAX_RETRIES

\* the call of p found the index in the list and has had the answer to its
\* describeIndex request
describedExisting(p) ==
  /\ Len(rlog[p]) >= 2
  /\ rlog[p][1] = "listIndexes"
  /\ rlog[p][2] = "describeIndex"

\* the initialization run by the call of p on the existing index failed
initFailed(p) ==
  apc[p] = "ret" /\ Len(rlog[p]) = 2 /\ ares[p].st \in {"err", "false"}

C16_HealthNeverRaises ==
  \A p \in Procs :
    (aop[p] = "health" /\ apc[p] = "ret") =>
      /\ ares[p].st \in {"true", "false"}
      /\ ares[p].st = "true" =>
           /\ initialized
           /\ rlog[p] # <<>>
           /\ rlog[p][Len(rlog[p])] = "describeIndexStats"
           /\ ares[p].msg = ""
      /\ ares[p].st = "false" => ares[p].msg # ""
      /\ ~initialized => ares[p].st = "false"

\* C16 witness: a health check whose initialization failed has returned
\* false.
C16_Witness ==
  \E p \in Procs :
    /\ aop[p] = "health" /\ apc[p] = "ret" /\ ares[p].st = "false"
    /\ ~initialized
    /\ requestsOf(p, "describeIndexStats") = 0

(***************************************************************************)
(* Properties of the working-copy manager                                   *)
(***************************************************************************)
\* the errors cloneRepository catches
AcquireErrors == {"mkdir failed", "clone failed", "checkout failed"}

\* cloneRepository has thrown to its caller
AcquireThrown(j) ==
  /\ err[j] # Undefined
  /\ ~walked[j]
  /\ pc[j] \notin {"mkdir", "clone", "checkout", "acq_clean"}

\* C17 as the claim has it: when mkdir, clone or checkout has failed and
\* the error has reached the caller of cloneRepository, the directory of the
\* job does not exist and the error is the one of the failed step.
C17_AcquireFailureDirGone ==
  \A j \in Jobs :
    AcquireThrown(j) => /\ ~dirExists[workDirOf(j)]
                        /\ err[j] \in AcquireErrors

\* C17 amended: when mkdir, clone or checkout has failed, cloneRepository
\* attempts the removal of the directory in the step that throws to its
\* caller, the error thrown is the one of the failed step whatever the
\* removal does, and the directory is gone unless the removal failed.
C17_AcquireFailureReleaseAttempted ==
  /\ [](\A j \in Jobs :
          AcquireThrown(j) => /\ err[j] \in AcquireErrors
                              /\ rmCalls[j] >= 1
                              /\ rmOk[j] => ~dirExists[workDirOf(j)])
  /\ [][\A j \in Jobs :
          pc[j] = "acq_clean" =>
            /\ pc'[j] \in {"done", "catch"}
            /\ err'[j] = err[j]
            /\ rmCalls'[j] = rmCalls[j] + 1
            /\ rmOk'[j] => ~dirExists'[workDirOf(j)]]_vars

\* C17 witness: a checkout has failed, the directory that held the clone has
\* been removed and the checkout error has reached the caller.
C17_Witness ==
  \E j \in Jobs :
    AcquireThrown(j) /\ err[j] = "checkout failed" /\ rmCalls[j] = 1 /\ ~dirExists[workDirOf(j)]


(***************************************************************************)
(* The chunker (utils/chunker.ts).  A file name is the sequence of its      *)
(* characters, a path the sequence of its segments below the working        *)
(* directory, a file content the sequence of its characters.                *)
(***************************************************************************)
\* longest content of a file of the small trees, in characters
MaxFileLen == 3
\* largest chunk size the small trees are walked with
MaxChunkSize == 2
\* most directories above a file of the small trees
MaxDirs == 1

NL == "\n"

\* shouldProcessFile: its extensions array
extensions ==
  { <<".", "j", "s">>, <<".", "t", "s">>, <<".", "j", "s", "x">>,
    <<".", "t", "s", "x">>, <<".", "p", "y">>, <<".", "j", "a", "v", "a">>,
    <<".", "g", "o">>, <<".", "c">>, <<".", "c", "p", "p">>, <<".", "h">>,
    <<".", "h", "p", "p">>, <<".", "c", "s">>, <<".", "p", "h", "p">>,
    <<".", "r", "b">>, <<".", "s", "w", "i", "f", "t">>,
    <<".", "d", "a", "r", "t">>, <<".", "j", "s", "o", "n">>,
    <<".", "y", "m", "l">>, <<".", "h", "t", "m", "l">>, <<".", "c", "s", "s">> }

IGNORED_DIRS ==
  { <<".", "g", "i", "t">>, <<".", "s", "v", "n">>, <<".", "h", "g">>,
    <<"n", "o", "d", "e", "_", "m", "o", "d", "u", "l", "e", "s">>,
    <<"_", "_", "p", "y", "c", "a", "c", "h", "e", "_", "_">>,
    <<"v", "e", "n", "v">>, <<".", "v", "e", "n", "v">>, <<"e", "n", "v">>,
    <<"t", "a", "r", "g", "e", "t">>, <<"d", "i", "s", "t">>,
    <<"b", "u", "i", "l", "d">>, <<"o", "u", "t">>,
    <<"c", "o", "v", "e", "r", "a", "g", "e">>, <<"v", "e", "n", "d", "o", "r">>,
    <<".", "i", "d", "e", "a">>, <<".", "v", "s", "c", "o", "d", "e">>,
    <<"C", "M", "a", "k", "e", "F", "i", "l", "e", "s">>,
    <<"c", "m", "a", "k", "e", "-", "b", "u", "i", "l", "d", "-", "d", "e", "b", "u", "g">> }

\* path.basename: the last segment
basename(filePath) == IF filePath = <<>> THEN <<>> ELSE filePath[Len(filePath)]

\* path.extname: from the last "." of the basename to its end; empty when
\* there is no "." or the only one is the first character, and for ".."
extname(filePath) ==
  LET base == basename(filePath)
      dots == {k \in 1..Len(base) : base[k] = "."}
      lastDot == CHOOSE k \in dots : \A m \in dots : m <= k
  IN IF dots = {} THEN <<>>
     ELSE IF lastDot = 1 THEN <<>>
     ELSE IF base = <<".", ".">> THEN <<>>
     ELSE SubSeq(base, lastDot, Len(base))

\* shouldProcessFile comparing the extension as written
shouldProcessFile_caseSensitive(filePath) == extname(filePath) \in extensions

\* shouldProcessFile(filePath); the directory the walk starts from is left
\* out of the path, extname reads the basename only
shouldProcessFile(filePath) == toLowerCase(extname(filePath)) \in extensions

\* walkAndChunkDirectory descends into a directory entry
descends(name) ==
  /\ name \notin IGNORED_DIRS
  /\ ~(name # <<>> /\ name[1] = ".")

\* the recursion of processDirectory reaches the entry at this path
walkReaches(filePath) ==
  \A k \in 1..(Len(filePath) - 1) : descends(filePath[k])

\* String.prototype.split('\n')
split(content) ==
  LET at == SelectSeq([k \in 1..Len(content) |-> k], LAMBDA k : content[k] = NL)
  IN [n \in 1..(Len(at) + 1) |->
        SubSeq(content,
               IF n = 1 THEN 1 ELSE at[n - 1] + 1,
               IF n = Len(at) + 1 THEN Len(content) ELSE at[n] - 1)]

\* directory and file names of the small trees
DirNames ==
  { <<"s", "r", "c">>, <<"d", "i", "s", "t">>,
    <<"n", "o", "d", "e", "_", "m", "o", "d", "u", "l", "e", "s">>,
    <<".", "g", "i", "t">>, <<".", "g", "i", "t", "h", "u", "b">>,
    <<"w", "i", "t", "h", ".", "d", "o", "t">> }

FileNames ==
  { <<"a", ".", "j", "s">>, <<"a", ".", "J", "S">>, <<"a", ".", "m", "d">>,
    <<"c", "i", ".", "y", "m", "l">>, <<"j", "s", "o", "n">>,
    <<".", "e", "s", "l", "i", "n", "t", "r", "c", ".", "j", "s">>,
    <<".", "b", "a", "s", "h", "r", "c">>,
    <<"D", "o", "c", "k", "e", "r", "f", "i", "l", "e">> }

\* paths of files at most MaxDirs directories below the working directory
Paths ==
  UNION { {Append(dirs, name) : dirs \in [1..n -> DirNames], name \in FileNames} :
          n \in 0..MaxDirs }

\* contents of at most MaxFileLen characters
Contents == UNION { [1..n -> {"x", NL}] : n \in 0..MaxFileLen }

\* a file whose readFile rejects
Unreadable == [readable |-> FALSE, content |-> <<>>]

Files == {[readable |-> TRUE, content |-> c] : c \in Contents} \cup {Unreadable}

\* a file of n lines, the last one without a line terminator
fileOfLines(n) ==
  [readable |-> TRUE,
   content |-> [k \in 1..(IF n = 0 THEN 0 ELSE 2 * n - 1) |->
                  IF k % 2 = 1 THEN "x" ELSE NL]]

\* the tree of three matching files of 1200, 10 and 0 lines
ScenarioTree ==
  << [path |-> <<<<"a", ".", "j", "s">>>>, file |-> fileOfLines(1200), listable |-> TRUE],
     [path |-> <<<<"s", "r", "c">>, <<"b", ".", "t", "s">>>>, file |-> fileOfLines(10),
      listable |-> TRUE],
     [path |-> <<<<"s", "r", "c">>, <<"c", ".", "p", "y">>>>, file |-> fileOfLines(0),
      listable |-> TRUE] >>

\* a tree with a directory whose readdir rejects and a file whose readFile
\* rejects, each with matching files beside and after it; listable says
\* that every directory on the way to the entry can be listed
FaultyTree ==
  << [path |-> <<<<"l", "i", "b">>, <<"a", ".", "j", "s">>>>, file |-> fileOfLines(1),
      listable |-> FALSE],
     [path |-> <<<<"s", "r", "c">>, <<"b", ".", "t", "s">>>>, file |-> Unreadable,
      listable |-> TRUE],
     [path |-> <<<<"s", "r", "c">>, <<"c", ".", "p", "y">>>>, file |-> fileOfLines(2),
      listable |-> TRUE],
     [path |-> <<<<"d", ".", "g", "o">>>>, file |-> fileOfLines(1), listable |-> TRUE] >>

\* the trees walked and the chunk size of each walk
WalkInputs ==
  {[tree |-> <<[path |-> p, file |-> f, listable |-> TRUE]>>, chunkSize |-> c] :
     p \in Paths, f \in Files, c \in 1..MaxChunkSize}
    \cup {[tree |-> <<>>, chunkSize |-> DEFAULT_CHUNK_SIZE]}
    \cup {[tree |-> t, chunkSize |-> DEFAULT_CHUNK_SIZE] : t \in {ScenarioTree, FaultyTree}}

\* what the walk records of an entry it has dealt with
Visit(entry, included, got) ==
  [path |-> entry.path, file |-> entry.file, listable |-> entry.listable,
   included |-> included, fileChunks |-> got]

\* a rejected readdir ending the whole walk
WalkEntry_readdirFatal ==
  /\ kpc = "entry"
  /\ tree # <<>>
  /\ LET entry == Head(tree)
     IN IF ~entry.listable
        THEN /\ kpc' = "done"
             /\ UNCHANGED <<tree, visited>>
        ELSE IF walkReaches(entry.path) /\ shouldProcessFile(entry.path)
        THEN /\ kpc' = "read"
             /\ UNCHANGED <<tree, visited>>
        ELSE /\ tree' = Tail(tree)
             /\ visited' = Append(visited, Visit(entry, FALSE, <<>>))
             /\ UNCHANGED kpc
  /\ UNCHANGED <<serviceVars, chunkSize, lines, li, currentChunk, lineCount, chunkIndex,
                 startLine, fileChunks, chunks>>

\* processDirectory: the next file entry.  It is passed to chunkFile when
\* the recursion reaches it (a rejected readdir is caught by the call on
\* that directory, which returns) and shouldProcessFile accepts its path.
WalkEntry ==
  /\ kpc = "entry"
  /\ tree # <<>>
  /\ LET entry == Head(tree)
     IN IF entry.listable /\ walkReaches(entry.path) /\ shouldProcessFile(entry.path)
        THEN /\ kpc' = "read"
             /\ UNCHANGED <<tree, visited>>
        ELSE /\ tree' = Tail(tree)
             /\ visited' = Append(visited, Visit(entry, FALSE, <<>>))
             /\ UNCHANGED kpc
  /\ UNCHANGED <<serviceVars, chunkSize, lines, li, currentChunk, lineCount, chunkIndex,
                 startLine, fileChunks, chunks>>

\* chunkFile: await readFile, split, the loop variables; a rejected readFile
\* is caught and chunkFile returns []
ReadFile ==
  /\ kpc = "read"
  /\ LET entry == Head(tree)
     IN IF entry.file.readable
        THEN /\ lines' = split(entry.file.content)
             /\ kpc' = "loop"
             /\ UNCHANGED <<tree, visited>>
        ELSE /\ lines' = <<>>
             /\ kpc' = "entry"
             /\ tree' = Tail(tree)
             /\ visited' = Append(visited, Visit(entry, TRUE, <<>>))
  /\ li' = 0
  /\ currentChunk' = <<>>
  /\ lineCount' = 0
  /\ chunkIndex' = 0
  /\ startLine' = 1
  /\ fileChunks' = <<>>
  /\ UNCHANGED <<serviceVars, chunkSize, chunks>>

\* chunkFile: one turn of the loop over lines; after the last turn chunkFile
\* returns and the walk pushes its chunks
ChunkLine ==
  /\ kpc = "loop"
  /\ li < Len(lines)
  /\ LET entry == Head(tree)
         text == currentChunk \o lines[li + 1] \o <<NL>>
         count == lineCount + 1
         closes == count >= chunkSize \/ li = Len(lines) - 1
         pushed == IF closes
                   THEN Append(fileChunks,
                               [content |-> text,
                                filePath |-> entry.path,
                                chunkIndex |-> chunkIndex,
                                startLine |-> startLine,
                                endLine |-> startLine + count - 1])
                   ELSE fileChunks
     IN /\ currentChunk' = IF closes THEN <<>> ELSE text
        /\ lineCount' = IF closes THEN 0 ELSE count
        /\ chunkIndex' = IF closes THEN chunkIndex + 1 ELSE chunkIndex
        /\ startLine' = IF closes THEN startLine + count ELSE startLine
        /\ fileChunks' = pushed
        /\ li' = li + 1
        /\ IF li + 1 < Len(lines)
           THEN UNCHANGED <<kpc, tree, chunks, visited>>
           ELSE /\ kpc' = "entry"
                /\ tree' = Tail(tree)
                /\ chunks' = chunks \o pushed
                /\ visited' = Append(visited, Visit(entry, TRUE, pushed))
  /\ UNCHANGED <<serviceVars, chunkSize, lines>>

\* walkAndChunkDirectory returns chunks
WalkReturns ==
  /\ kpc = "entry"
  /\ tree = <<>>
  /\ kpc' = "done"
  /\ UNCHANGED <<serviceVars, tree, chunkSize, lines, li, currentChunk, lineCount,
                 chunkIndex, startLine, fileChunks, chunks, visited>>

InitChunker ==
  /\ controller = "jobs"
  /\ adapter = "namespaced"
  /\ indexState = "absent"
  /\ indexDim = INDEX_DIMENSION
  /\ indexMetric = INDEX_METRIC
  /\ store = [ns \in Namespaces |-> {}]
  /\ InitAdapter
  /\ InitPipeline
  /\ appState = "none"
  /\ \E input \in WalkInputs :
       /\ tree = input.tree
       /\ chunkSize = input.chunkSize
  /\ kpc = "entry"
  /\ lines = <<>>
  /\ li = 0
  /\ currentChunk = <<>>
  /\ lineCount = 0
  /\ chunkIndex = 0
  /\ startLine = 1
  /\ fileChunks = <<>>
  /\ chunks = <<>>
  /\ visited = <<>>

NextChunker ==
  \/ WalkEntry
  \/ ReadFile
  \/ ChunkLine
  \/ WalkReturns

SpecChunker == InitChunker /\ [][NextChunker]_vars

(***************************************************************************)
(* Properties of the chunker                                                *)
(***************************************************************************)
\* the number of lines of a file: its line terminators, and one more when
\* text follows the last terminator
lineCountOf(content) ==
  Cardinality({k \in 1..Len(content) : content[k] = NL})
    + (IF content # <<>> /\ content[Len(content)] # NL THEN 1 ELSE 0)

\* C18: for every readable file of N lines that chunkFile was called on, it
\* returned ceil(N / chunkSize) chunks with indices 0..k-1 in order whose
\* line ranges are contiguous, do not overlap and cover exactly 1..N.
\* Stated as the claim has it; chunkFile counts content.split('\n'), which
\* has one element for the empty file and one element more than the file
\* has lines when the last line is terminated.
C18_ChunksCoverLines ==
  \A i \in DOMAIN visited :
    LET v == visited[i]
        N == lineCountOf(v.file.content)
        k == Len(v.fileChunks)
    IN (v.included /\ v.file.readable) =>
         /\ k = (N + chunkSize - 1) \div chunkSize
         /\ \A n \in 1..k : /\ v.fileChunks[n].chunkIndex = n - 1
                            /\ v.fileChunks[n].startLine <= v.fileChunks[n].endLine
         /\ \A n \in 1..(k - 1) :
              v.fileChunks[n + 1].startLine = v.fileChunks[n].endLine + 1
         /\ k > 0 => /\ v.fileChunks[1].startLine = 1
                     /\ v.fileChunks[k].endLine = N

\* the line ranges of the chunks of a file
rangesOf(cs) == [n \in 1..Len(cs) |-> <<cs[n].startLine, cs[n].endLine>>]

\* C19: chunkFile returns no chunk for an empty file and for a file that
\* cannot be read, and the walk of the tree of three matching files of
\* 1200, 10 and 0 lines at chunk size 500 returns the chunks 1-500,
\* 501-1000, 1001-1200 of the first, 1-10 of the second and none of the
\* third, 4 chunks in all.  Stated as the claim has it; chunkFile returns
\* one chunk (line 1 to 1) for an empty file.
C19_EmptyFileNoChunk ==
  /\ \A i \in DOMAIN visited :
       LET v == visited[i]
       IN (v.included /\ (~v.file.readable \/ v.file.content = <<>>))
            => v.fileChunks = <<>>
  /\ (kpc = "done" /\ [n \in DOMAIN visited |-> visited[n].path]
                        = [n \in DOMAIN ScenarioTree |-> ScenarioTree[n].path])
       => /\ \A n \in DOMAIN visited : visited[n].included
          /\ rangesOf(visited[1].fileChunks) = << <<1, 500>>, <<501, 1000>>, <<1001, 1200>> >>
          /\ rangesOf(visited[2].fileChunks) = << <<1, 10>> >>
          /\ visited[3].fileChunks = <<>>
          /\ Len(chunks) = 4

\* a segment of the path names an ignored directory or starts with "."
excludedSegment(filePath) ==
  \E k \in 1..Len(filePath) :
    \/ filePath[k] \in IGNORED_DIRS
    \/ (filePath[k] # <<>> /\ filePath[k][1] = ".")

\* C20: a file is left out of the walk whenever a segment of its path is an
\* ignored directory or starts with ".", even when its extension is
\* allowed, and otherwise it is taken exactly when its extension, compared
\* without regard to case, is in the allow-list.  Stated as the claim has
\* it; only directories are tested against IGNORED_DIRS and the leading
\* ".", shouldProcessFile itself reads nothing but the extension.
C20_ExcludesIgnoredAndDotSegments ==
  \A i \in DOMAIN visited :
    LET v == visited[i]
    IN /\ excludedSegment(v.path) => ~v.included
       /\ (v.listable /\ ~excludedSegment(v.path)) =>
            (v.included <=> toLowerCase(extname(v.path)) \in extensions)

(***************************************************************************)
(* Specification of shouldProcessFile called on a path, as the unit tests   *)
(* call it                                                                  *)
(***************************************************************************)
\* the paths of tests/unit/utils/chunker.test.ts (both copies); a leading "/"
\* adds no segment, '' is the path without segments
TestPaths ==
  { <<<<"p", "a", "t", "h">>, <<"t", "o">>, <<"f", "i", "l", "e", ".", "j", "s">>>>,
    <<<<"p", "a", "t", "h">>, <<"t", "o">>, <<"f", "i", "l", "e", ".", "t", "s">>>>,
    <<<<"p", "a", "t", "h">>, <<"t", "o">>, <<"f", "i", "l", "e", ".", "j", "s", "x">>>>,
    <<<<"p", "a", "t", "h">>, <<"t", "o">>, <<"f", "i", "l", "e", ".", "t", "s", "x">>>>,
    <<<<"p", "a", "t", "h">>, <<"t", "o">>, <<"f", "i", "l", "e", ".", "p", "y">>>>,
    <<<<"p", "a", "t", "h">>, <<"t", "o">>, <<"f", "i", "l", "e", ".", "j", "a", "v", "a">>>>,
    <<<<"p", "a", "t", "h">>, <<"t", "o">>, <<"f", "i", "l", "e", ".", "g", "o">>>>,
    <<<<"p", "a", "t", "h">>, <<"t", "o">>, <<"f", "i", "l", "e", ".", "c">>>>,
    <<<<"p", "a", "t", "h">>, <<"t", "o">>, <<"f", "i", "l", "e", ".", "c", "p", "p">>>>,
    <<<<"p", "a", "t", "h">>, <<"t", "o">>, <<"f", "i", "l", "e", ".", "h">>>>,
    <<<<"p", "a", "t", "h">>, <<"t", "o">>, <<"f", "i", "l", "e", ".", "h", "p", "p">>>>,
    <<<<"p", "a", "t", "h">>, <<"t", "o">>, <<"f", "i", "l", "e", ".", "c", "s">>>>,
    <<<<"p", "a", "t", "h">>, <<"t", "o">>, <<"f", "i", "l", "e", ".", "p", "h", "p">>>>,
    <<<<"p", "a", "t", "h">>, <<"t", "o">>, <<"f", "i", "l", "e", ".", "r", "b">>>>,
    <<<<"p", "a", "t", "h">>, <<"t", "o">>, <<"f", "i", "l", "e", ".", "s", "w", "i", "f", "t">>>>,
    <<<<"p", "a", "t", "h">>, <<"t", "o">>, <<"f", "i", "l", "e", ".", "d", "a", "r", "t">>>>,
    <<<<"p", "a", "t", "h">>, <<"t", "o">>, <<"f", "i", "l", "e", ".", "j", "s", "o", "n">>>>,
    <<<<"p", "a", "t", "h">>, <<"t", "o">>, <<"f", "i", "l", "e", ".", "y", "m", "l">>>>,
    <<<<"p", "a", "t", "h">>, <<"t", "o">>, <<"f", "i", "l", "e", ".", "h", "t", "m", "l">>>>,
    <<<<"p", "a", "t", "h">>, <<"t", "o">>, <<"f", "i", "l", "e", ".", "c", "s", "s">>>>,
    <<<<"p", "a", "t", "h">>, <<"t", "o">>, <<"f", "i", "l", "e", ".", "m", "d">>>>,
    <<<<"p", "a", "t", "h">>, <<"t", "o">>, <<"f", "i", "l", "e", ".", "t", "x", "t">>>>,
    <<<<"p", "a", "t", "h">>, <<"t", "o">>, <<"f", "i", "l", "e", ".", "y", "a", "m", "l">>>>,
    <<<<"p", "a", "t", "h">>, <<"t", "o">>, <<"f", "i", "l", "e", ".", "l", "o", "c", "k">>>>,
    <<<<"p", "a", "t", "h">>, <<"t", "o">>, <<"f", "i", "l", "e", ".", "p", "n", "g">>>>,
    <<<<"p", "a", "t", "h">>, <<"t", "o">>, <<"f", "i", "l", "e", ".", "j", "p", "g">>>>,
    <<<<"p", "a", "t", "h">>, <<"t", "o">>, <<"f", "i", "l", "e", ".", "s", "v", "g">>>>,
    <<<<"p", "a", "t", "h">>, <<"t", "o">>, <<"f", "i", "l", "e", ".", "p", "d", "f">>>>,
    <<<<"p", "a", "t", "h">>, <<"t", "o">>, <<"f", "i", "l", "e", ".", "d", "o", "c">>>>,
    <<<<"p", "a", "t", "h">>, <<"t", "o">>, <<"f", "i", "l", "e", ".", "x", "l", "s">>>>,
    <<<<"p", "a", "t", "h">>, <<"t", "o">>, <<"f", "i", "l", "e", ".", "c", "s", "v">>>>,
    <<<<"p", "a", "t", "h">>, <<"t", "o">>, <<"f", "i", "l", "e", ".", "g", "i", "t">>>>,
    <<<<"p", "a", "t", "h">>, <<"t", "o">>, <<"f", "i", "l", "e", ".", "e", "n", "v">>>>,
    <<<<"p", "a", "t", "h">>, <<"t", "o">>, <<"f", "i", "l", "e", ".", "l", "o", "g">>>>,
    <<<<"p", "a", "t", "h">>, <<"t", "o">>, <<"f", "i", "l", "e", ".", "b", "a", "k">>>>,
    <<<<"p", "a", "t", "h">>, <<"t", "o">>, <<"f", "i", "l", "e", "j", "s", "o", "n">>>>,
    <<<<"p", "a", "t", "h">>, <<"w", "i", "t", "h", ".", "d", "o", "t">>, <<"f", "i", "l", "e", ".", "j", "s">>>>,
    <<<<"p", "a", "t", "h">>, <<"w", "i", "t", "h", ".", "d", "o", "t">>, <<"f", "i", "l", "e", ".", "m", "d">>>>,
    <<<<".", "g", "i", "t", "h", "u", "b">>, <<"w", "o", "r", "k", "f", "l", "o", "w", "s">>, <<"t", "e", "s", "t", ".", "y", "m", "l">>>>,
    <<<<"p", "a", "t", "h">>, <<"t", "o">>, <<"f", "i", "l", "e", ".", "J", "S">>>>,
    <<<<"p", "a", "t", "h">>, <<"t", "o">>, <<"f", "i", "l", "e", ".", "T", "S">>>>,
    <<<<"p", "a", "t", "h">>, <<"t", "o">>, <<"f", "i", "l", "e", ".", "P", "Y">>>>,
    <<>>,
    <<<<"f", "i", "l", "e">>>>,
    <<<<".", "g", "i", "t", "i", "g", "n", "o", "r", "e">>>>,
    <<<<"D", "o", "c", "k", "e", "r", "f", "i", "l", "e">>>>,
    <<<<"p", "a", "t", "h">>, <<"t", "o">>, <<".", "e", "n", "v">>>> }

FilterInputs == Paths \cup TestPaths

\* shouldProcessFile(filePath) is called and returns
CallShouldProcessFile ==
  /\ kpc = "filter"
  /\ tree # <<>>
  /\ visited' = Append(visited,
                       Visit(Head(tree), shouldProcessFile(Head(tree).path), <<>>))
  /\ tree' = Tail(tree)
  /\ UNCHANGED <<serviceVars, kpc, chunkSize, lines, li, currentChunk, lineCount,
                 chunkIndex, startLine, fileChunks, chunks>>

InitFilter ==
  /\ controller = "jobs"
  /\ adapter = "namespaced"
  /\ indexState = "absent"
  /\ indexDim = INDEX_DIMENSION
  /\ indexMetric = INDEX_METRIC
  /\ store = [ns \in Namespaces |-> {}]
  /\ InitAdapter
  /\ InitPipeline
  /\ appState = "none"
  /\ \E p \in FilterInputs : tree = <<[path |-> p, file |-> Unreadable, listable |-> TRUE]>>
  /\ kpc = "filter"
  /\ chunkSize = DEFAULT_CHUNK_SIZE
  /\ lines = <<>>
  /\ li = 0
  /\ currentChunk = <<>>
  /\ lineCount = 0
  /\ chunkIndex = 0
  /\ startLine = 1
  /\ fileChunks = <<>>
  /\ chunks = <<>>
  /\ visited = <<>>

NextFilter == CallShouldProcessFile

SpecFilter == InitFilter /\ [][NextFilter]_vars

\* the name has a "." that is not its first character, and what stands from
\* its last "." on is, in lower case, one of the allowed extensions
allowedName(name) ==
  \E k \in 2..Len(name) :
    /\ name[k] = "."
    /\ \A m \in (k + 1)..Len(name) : name[m] # "."
    /\ toLowerCase(SubSeq(name, k, Len(name))) \in extensions

ApiMaxChunks == 2

NextApi ==
  \/ StartApp
  \/ AppInitStep
  \/ AppInitReturned
  \/ IndexBecomesReady
  \/ \E j \in SoloJobs, body \in Bodies : Receive(j, body)
  \/ \E j \in SoloJobs : \/ UserChecked(j)
                          \/ PostEmbed(j)
                          \/ RunStep(j, ApiMaxChunks)
                          \/ JobAdapterStep(j)
  \/ \E j \in Jobs : GetJob(j)

SpecApi == Init /\ [][NextApi]_vars

(***************************************************************************)
(* Properties of the HTTP interface                                         *)
(***************************************************************************)
\* the POST handler has answered or started a pipeline
Handled(j) == pc[j] \notin {"none", "userExists", "createJob"}

NoJobNoRun(j) == job[j].status = "none" /\ started[j] = 0

\* C22: a job record exists or a pipeline was started only for a body with
\* repoUrl and userId whose repoUrl passes isGitUrl and whose user exists; a
\* body without repoUrl or userId or with a repoUrl that is no git URL is
\* answered 400, an unknown user 404, both with success false, and then no
\* record exists and no pipeline was started.
C22_RejectedCreatesNothing ==
  \A j \in Jobs :
    LET body == payload[j]
        missing == body.repoUrl = <<>> \/ body.userId = Undefined
        badUrl == ~missing /\ ~isGitUrl(body.repoUrl)
    IN /\ ~NoJobNoRun(j) =>
            ~missing /\ isGitUrl(body.repoUrl) /\ body.userId \in Users
       /\ (pc[j] # "none" /\ (missing \/ badUrl)) =>
            /\ res[j] = <<[status |-> 400, success |-> FALSE, jobId |-> Undefined]>>
            /\ NoJobNoRun(j)
       /\ (Handled(j) /\ ~missing /\ ~badUrl /\ body.userId \notin Users) =>
            /\ res[j] = <<[status |-> 404, success |-> FALSE, jobId |-> Undefined]>>
            /\ NoJobNoRun(j)
       /\ (pc[j] # "none" /\ ~missing
             /\ body.repoUrl \in {<<"h", "t", "t", "p", "s", ":", "/", "/", "h", "/", "r">>,
                                  <<"f", "t", "p", ":", "/", "/", "h", "/", "r", ".", "g", "i", "t">>})
            => pc[j] = "rejected"

\* a request without userId was answered 400, one of an unknown user 404
C22_Witness ==
  \E j \in Jobs :
    /\ pc[j] = "rejected"
    /\ payload[j].userId = Ghost
    /\ payload[j].repoUrl = <<"g", "i", "t", "@", "h", ":", "r", ".", "g", "i", "t">>
    /\ res[j] = <<[status |-> 404, success |-> FALSE, jobId |-> Undefined]>>

\* C23: once the pipeline of an accepted request has started, the response
\* 202 with success true and the id of the record just created has been
\* sent, and it is sent when the pipeline has not gone beyond its first
\* await; the pipeline is started once; a response, once sent, is the only
\* one and never changes, whatever the pipeline does later.
C23_AcceptedAnsweredAtOnce ==
  /\ [](\A j \in Jobs :
          /\ started[j] <= 1
          /\ Len(res[j]) <= 1
          /\ (started[j] = 1 \/ job[j].status # "none") =>
               /\ res[j] = <<[status |-> 202, success |-> TRUE, jobId |-> job[j].jobId]>>
               /\ started[j] = 1
               /\ job[j].jobId = j)
  /\ [][\A j \in Jobs :
          /\ res[j] # <<>> => res'[j] = res[j]
          /\ (res[j] = <<>> /\ res'[j] # <<>> /\ res'[j][1].status = 202) =>
               /\ job[j].status = "none"
               /\ job'[j].status = "queued"
               /\ pc'[j] \in {"mkdir", "running0"}]_vars

\* the run of an accepted request failed after 202 had been sent
C23_Witness ==
  \E j \in Jobs :
    /\ Ended(j)
    /\ job[j].status = "failed"
    /\ res[j] = <<[status |-> 202, success |-> TRUE, jobId |-> j]>>

\* C24: GET /embed/:jobId answers 404 with success false when no record has
\* the id, and otherwise 200 with success true and the jobId, status,
\* progress, repoUrl, timestamps and error the record has at that moment;
\* it changes no record.
C24_StatusQueryReadsRecord ==
  [][\A j \in Jobs :
       qres'[j] # qres[j] =>
         /\ job' = job
         /\ Len(qres'[j]) = 1
         /\ IF job[j].status = "none"
            THEN qres'[j][1] = [status |-> 404, success |-> FALSE, job |-> <<>>]
            ELSE /\ qres'[j][1].status = 200
                 /\ qres'[j][1].success
                 /\ Len(qres'[j][1].job) = 1
                 /\ LET got == qres'[j][1].job[1]
                    IN /\ got.jobId = j
                       /\ got.status = job[j].status
                       /\ got.progress = job[j].progress
                       /\ got.repoUrl = payload[j].repoUrl
                       /\ got.createdAt = job[j].createdAt
                       /\ got.updatedAt = job[j].updatedAt
                       /\ got.error = job[j].error]_vars

\* a query saw a failed record with its error, one saw no record
C24_Witness ==
  /\ qres["j2"] = <<[status |-> 404, success |-> FALSE, job |-> <<>>]>>
  /\ qres["j1"] # <<>>
  /\ qres["j1"][1].status = 200
  /\ qres["j1"][1].job[1].status = "failed"
  /\ qres["j1"][1].job[1].error = "clone failed"
  /\ qres["j1"][1].job[1].updatedAt > 1

(***************************************************************************)
(* Specification of two jobs running side by side on a service that has     *)
(* started, repositories of at most one chunk                               *)
(***************************************************************************)
\* most chunks of a repository of this specification
TwoJobsMaxChunks == 1

\* the state startApp leaves when init succeeded: index ready, adapter Ready
InitStarted ==
  /\ InitBuild
  /\ indexState = "ready"
  /\ indexDim = INDEX_DIMENSION
  /\ indexMetric = INDEX_METRIC
  /\ store = [ns \in Namespaces |-> {}]
  /\ initialized = TRUE
  /\ aop = [p \in Procs |-> "idle"]
  /\ apc = [p \in Procs |-> "idle"]
  /\ aretries = [p \in Procs |-> 0]
  /\ agroups = [p \in Procs |-> <<>>]
  /\ abi = [p \in Procs |-> 0]
  /\ aarg = [p \in Procs |-> NoArg]
  /\ awas = [p \in Procs |-> FALSE]
  /\ apollErrors = [p \in Procs |-> 0]
  /\ ares = [p \in Procs |-> NoRes]
  /\ aout = [p \in Procs |-> {}]
  /\ rlog = [p \in Procs |-> <<>>]
  /\ InitPipeline
  /\ InitNoWalk
  /\ appState = "listening"

\* the adapter writes a batch of the upsert of job j
JobUpsertBatch(j) ==
  /\ UpsertBatch(j)
  /\ UNCHANGED <<buildVars, chunkerVars, apiVars, appState, pipelineVars>>

NextTwoJobs ==
  \E j \in Jobs :
    \/ \E body \in RunBodies : Receive(j, body)
    \/ UserChecked(j)
    \/ PostEmbed(j)
    \/ RunStep(j, TwoJobsMaxChunks)
    \/ JobUpsertBatch(j)

SpecTwoJobs == InitStarted /\ [][NextTwoJobs]_vars


(***************************************************************************)
(* Properties of jobs running side by side                                  *)
(***************************************************************************)
\* the run of job j holds a working copy: mkdir has succeeded and the run
\* has not yet come to its cleanup
Using(j) ==
  \/ pc[j] \in {"clone", "checkout", "initial", "walk", "empty", "chunked", "await",
                "progress", "embed", "iprogress", "upsert", "succeed"}
  \/ controller = "jobs" /\ pc[j] \in {"running0", "catch"}

\* C25: the working directories of two jobs with different ids are
\* different and neither lies below the other, and the directory of a job
\* that holds a working copy exists whatever the other job releases or
\* cleans up after a failed acquisition.
C25_WorkDirExclusive ==
  \A j \in Jobs :
    /\ \A k \in Jobs \ {j} : ~below(workDirOf(j), workDirOf(k))
    /\ Using(j) => dirExists[workDirOf(j)]

\* one job has removed its directory while the other holds its working copy
C25_Witness ==
  \E j \in Jobs, k \in Jobs :
    /\ j # k
    /\ rmCalls[j] > 0 /\ rmOk[j] /\ ~dirExists[workDirOf(j)]
    /\ pc[k] = "walk" /\ dirExists[workDirOf(k)]


(***************************************************************************)
(* Properties of the progress a run reports                                 *)
(***************************************************************************)
\* cloneRepository is at work for job j
Acquiring(j) == pc[j] \in {"mkdir", "clone", "checkout", "acq_clean"}

\* C26: while the working copy is being acquired the record has status
\* running and progress 0, written before acquisition began, and the
\* initial checkpoint is in the record only once acquisition has succeeded.
\* Stated as the claim has it; processEmbedding clones before its first
\* ledger write.
C26_RunningBeforeAcquire ==
  \A j \in Jobs :
    /\ Acquiring(j) => (job[j].status = "running" /\ job[j].progress = 0)
    /\ (job[j].status = "running" /\ job[j].progress > 0) =>
         (~Acquiring(j) /\ err[j] \notin AcquireErrors)


\* C27: every progress written with status running, that is before the
\* upsert has completed, is below 100, and progress 100 is in the record
\* only together with status succeeded.  Stated as the claim has it;
\* updateProgress interpolates up to 100 itself, so the write after the last
\* batch is running with progress 100.
C27_FullProgressOnlyOnSuccess ==
  \A j \in Jobs :
    /\ job[j].status = "running" => job[j].progress < 100
    /\ job[j].progress = 100 => job[j].status = "succeeded"


(***************************************************************************)
(* Properties of the embedding batches                                      *)
(***************************************************************************)
\* C28: at most BATCH_SIZE generateEmbedding calls of a run are in flight,
\* and calls are issued only when no call of the run is in flight and none
\* has failed, at most BATCH_SIZE at a time; processChunksInBatches issues
\* the calls of the next batch in the step that wrote the progress of the
\* batch before it.
C28_BatchesOneAfterAnother ==
  /\ [](\A j \in Jobs : inflight[j] <= BATCH_SIZE)
  /\ [][\A j \in Jobs :
          embedCalls'[j] > embedCalls[j] =>
            /\ inflight[j] = 0
            /\ ~embedFailed[j]
            /\ embedCalls'[j] - embedCalls[j] <= BATCH_SIZE
            /\ (controller = "jobs" /\ embedCalls[j] > 0) =>
                 /\ pc[j] = "progress"
                 /\ embedCalls[j] % BATCH_SIZE = 0
                 /\ job'[j].status = "running"
                 /\ job'[j].progress =
                      updateProgress(CHUNKING_PROGRESS, embedCalls[j], nChunks[j])]_vars

\* the calls of a second batch are in flight
C28_Witness ==
  \E j \in Jobs :
    /\ controller = "jobs"
    /\ embedCalls[j] > BATCH_SIZE
    /\ inflight[j] = embedCalls[j] - BATCH_SIZE


\* C29: a run calls upsert at most once, when every chunk has been embedded
\* and no call has failed or is in flight, with one vector per chunk in
\* chunk order; a run in which an embedding call failed never calls upsert
\* and no record of it is in the store.
C29_UpsertOnceAfterAllEmbedded ==
  /\ [](\A j \in Jobs :
          /\ upsertCalls[j] <= 1
          /\ upsertCalls[j] = 1 =>
               /\ ~embedFailed[j]
               /\ inflight[j] = 0
               /\ embedCalls[j] = nChunks[j]
               /\ nVectors[j] = nChunks[j]
          /\ embedFailed[j] =>
               /\ upsertCalls[j] = 0
               /\ \A ns \in Namespaces : \A r \in store[ns] : r.id[1] # j)
  /\ [][\A j \in Jobs :
          upsertCalls'[j] > upsertCalls[j] =>
            /\ aop'[j] = "upsert"
            /\ Len(aarg'[j].vectors) = nChunks[j]
            /\ \A k \in 1..nChunks[j] :
                 /\ aarg'[j].vectors[k].id = <<j, k>>
                 /\ aarg'[j].vectors[k].userId = tenant[j]]_vars

\* a run failed in its second batch: the first batch was embedded, nothing
\* was upserted
C29_Witness ==
  \E j \in Jobs :
    /\ Ended(j)
    /\ embedFailed[j]
    /\ embedCalls[j] > BATCH_SIZE
    /\ upsertCalls[j] = 0


(***************************************************************************)
(* Properties of the batches of an upsert call                              *)
(***************************************************************************)
\* the vectors of tenant u in a list, in input order
vectorsOf(vs, u) == SelectSeq(vs, LAMBDA v : v.userId = u)

\* the batches a list needs when each tenant's vectors go in batches of
\* PINECONE_BATCH_SIZE
tenantBatches(vs) ==
  {<<u, k>> \in Tenants \X (1..Len(vs)) :
     (k - 1) * PINECONE_BATCH_SIZE < Len(vectorsOf(vs, u))}

\* C30: an upsert call writes each tenant's vectors, in input order, in
\* consecutive batches of at most 40 vectors, one write at a time; every
\* batch holds vectors of a single tenant, and a successful call has written
\* every input vector in exactly one batch.  Stated as the claim has it; the
\* adapter of services/pinecone.service.ts batches the whole list, so a
\* batch of it mixes tenants.
C30_BatchesPerTenant ==
  \A p \in Procs :
    /\ (aop[p] = "upsert" /\ apc[p] = "batch") =>
         LET g == Head(agroups[p])
             batch == processBatch(g.vecs, abi[p], PINECONE_BATCH_SIZE)
             u == batch[1].userId
         IN /\ Len(batch) \in 1..PINECONE_BATCH_SIZE
            /\ \A k \in 1..Len(batch) : batch[k].userId = u
            /\ batch = processBatch(vectorsOf(aarg[p].vectors, u), abi[p],
                                    PINECONE_BATCH_SIZE)
            /\ abi[p] % PINECONE_BATCH_SIZE = 0
    /\ (aop[p] = "upsert" /\ apc[p] = "ret" /\ ares[p].st = "ok") =>
         upsertAttempts(p) = Cardinality(tenantBatches(aarg[p].vectors))


(***************************************************************************)
(* Properties of the initialized flag                                       *)
(***************************************************************************)
\* the errors init() rethrows
InitErrors ==
  {"listIndexes failed", "createIndex failed", "index already exists",
   "index did not become ready", "describeIndex failed", "dimension mismatch"}

\* the call of p has ended with an error of the initialization it ran
initializationFailed(p) == apc[p] = "ret" /\ ares[p].msg \in InitErrors

\* the step sets this.initialized
BecomesReady == ~initialized /\ initialized'

\* the step is init() getting, for p, the description of an existing index
\* of the configured dimension
FoundExisting(p) ==
  /\ apc[p] = "describe"
  /\ requestsOf(p, "createIndex") = 0
  /\ indexState # "absent"
  /\ indexDim = INDEX_DIMENSION
  /\ rlog'[p] = Append(rlog[p], "describeIndex")

\* the step is a readiness poll of p, after its createIndex, that reports
\* the index ready
CreatedAndReady(p) ==
  /\ apc[p] = "poll"
  /\ requestsOf(p, "createIndex") = 1
  /\ indexState = "ready"
  /\ rlog'[p] = Append(rlog[p], "describeIndex")

\* the flag is set only by an initialization that found the index existing
\* with dimension INDEX_DIMENSION or created it and saw a poll report ready
ReadyOnlyByGoodInit ==
  [][BecomesReady => \E p \in Procs : FoundExisting(p) \/ CreatedAndReady(p)]_vars

PollThrew(p) == apc[p] = "poll" /\ apollErrors'[p] > apollErrors[p]

\* the step is a describeIndex call of the readiness wait of p that
\* reported the index ready
PollSawReady(p) ==
  /\ apc[p] = "poll"
  /\ rlog'[p] = Append(rlog[p], "describeIndex")
  /\ apollErrors'[p] = apollErrors[p]
  /\ indexState = "ready"

\* C32: a describeIndex call that throws during the readiness wait never
\* ends the initialization with that error: it uses up one attempt and,
\* unless it was the last, polling goes on; describeIndex is called at most
\* MAX_RETRIES times in one initialization; a poll that reports the index
\* ready, the last one included, makes the initialization succeed.
C32_PollErrorsNotFatal ==
  /\ [][\A p \in Procs :
          PollThrew(p) =>
            /\ aretries'[p] = aretries[p] + 1
            /\ ares'[p].msg # "describeIndex failed"
            /\ aretries[p] + 1 < MAX_RETRIES =>
                 /\ apc'[p] = "poll"
                 /\ ares'[p] = ares[p]]_vars
  /\ [](\A p \in Procs :
          /\ requestsOf(p, "describeIndex") <= MAX_RETRIES
          /\ aretries[p] <= MAX_RETRIES)
  /\ [][\A p \in Procs :
          PollSawReady(p) =>
            /\ initialized'
            /\ ares'[p].st \notin {"err", "false"}]_vars

\* C32 witness: an initialization has succeeded on its last poll after
\* polls that threw.
C32_Witness ==
  \E p \in Procs :
    /\ initialized
    /\ requestsOf(p, "createIndex") = 1
    /\ requestsOf(p, "describeIndex") = MAX_RETRIES
    /\ apollErrors[p] >= 2
    /\ ares[p].st \notin {"err", "false"}


(***************************************************************************)
(* Properties of lazy initialization                                        *)
(***************************************************************************)
\* the operations that run the ensure-ready check
LazyOps == {"upsert", "query", "delete", "health"}

\* the remote calls that are an operation's own
OwnCalls == {"upsert", "query", "deleteAll", "describeIndexStats"}

\* the own remote calls the current call of p has made
ownCalls(p) == Cardinality({k \in DOMAIN rlog[p] : rlog[p][k] \in OwnCalls})

\* p is in an operation that found the adapter not Ready
FoundNotReady(p) ==
  /\ aop[p] \in LazyOps
  /\ aop[p] = "upsert" => aarg[p].vectors # <<>>
  /\ ~awas[p]

\* C33: an operation that finds the adapter not Ready runs the
\* initialization before anything else; when the initialization fails the
\* operation ends with that error (the health check with false) without a
\* remote call of its own and the adapter is not Ready, so the next
\* operation starts with the initialization again; when it succeeds the
\* operation goes on to its own call.
C33_LazyInitRetried ==
  /\ [](\A p \in Procs :
          FoundNotReady(p) =>
            /\ rlog[p] # <<>> => rlog[p][1] = "listIndexes"
            /\ ownCalls(p) > 0 => initialized
            /\ initializationFailed(p) =>
                 /\ ares[p].st = IF aop[p] = "health" THEN "false" ELSE "err"
                 /\ ownCalls(p) = 0
                 /\ ~initialized)
  /\ [][\A p \in Procs :
          (aop[p] = "idle" /\ FoundNotReady(p)')
            => (~initialized /\ apc'[p] = "list")]_vars
  /\ [][\A p \in Procs :
          (FoundNotReady(p) /\ BecomesReady)
            => (\E q \in Procs : FoundExisting(q) \/ CreatedAndReady(q))
               /\ (FoundExisting(p) \/ CreatedAndReady(p)
                     => /\ apc'[p] \in {"batch", "exec", "stats"}
                        /\ ares'[p] = NoRes)]_vars

\* C33 witness: a query made after an initialization that had created the
\* index and failed has initialized the adapter and returned.
C33_Witness ==
  \E p \in Procs :
    /\ aop[p] = "query" /\ apc[p] = "ret" /\ ares[p].st = "ok"
    /\ ~awas[p]
    /\ rlog[p] = <<"listIndexes", "describeIndex", "query">>
    /\ indexState = "creating"


\* C34: the initialized flag, once set, is never cleared, and an operation
\* that runs the ensure-ready check on a Ready adapter sends no listIndexes,
\* createIndex or describeIndex request.
C34_ReadyIsPermanent ==
  /\ [][initialized => initialized']_vars
  /\ [](\A p \in Procs :
          (aop[p] \in LazyOps /\ awas[p]) =>
            /\ requestsOf(p, "listIndexes") = 0
            /\ requestsOf(p, "createIndex") = 0
            /\ requestsOf(p, "describeIndex") = 0)

\* C34 witness: a health check made on a Ready adapter has failed on its
\* describeIndexStats request, its only one, and the adapter is Ready.
C34_Witness ==
  \E p \in Procs :
    /\ aop[p] = "health" /\ apc[p] = "ret" /\ ares[p].st = "false"
    /\ awas[p]
    /\ rlog[p] = <<"describeIndexStats">>
    /\ initialized


(***************************************************************************)
(* Properties of the records an upsert writes                               *)
(***************************************************************************)
\* the record to be written for a vector: its commit when it has one that
\* is not empty, the empty string otherwise, everything else as given
writtenFor(v) ==
  [id |-> v.id,
   values |-> v.values,
   repoUrl |-> v.repoUrl,
   filePath |-> v.filePath,
   chunkIndex |-> v.chunkIndex,
   commit |-> IF v.commit # Undefined /\ v.commit # "" THEN v.commit ELSE "",
   userId |-> v.userId,
   startLine |-> v.startLine,
   endLine |-> v.endLine]

\* C35: every record an upsert call adds to the store is the record of one
\* of its input vectors with the commit normalised and every other field
\* unchanged; a call that returned successfully has written that record for
\* each of its vectors; the list the caller passed is the same throughout
\* the call.
C35_CommitNormalised ==
  /\ [][\A ns \in Namespaces : \A r \in store'[ns] \ store[ns] :
          \E p \in Procs :
            /\ aop[p] = "upsert"
            /\ \E k \in DOMAIN aarg[p].vectors : r = writtenFor(aarg[p].vectors[k])]_vars
  /\ [](\A p \in Procs :
          (aop[p] = "upsert" /\ apc[p] = "ret" /\ ares[p].st = "ok") =>
            \A k \in DOMAIN aarg[p].vectors :
              \E ns \in Namespaces : writtenFor(aarg[p].vectors[k]) \in store[ns])
  /\ [][\A p \in Procs :
          (aop[p] = "upsert" /\ aop'[p] = "upsert") => aarg'[p] = aarg[p]]_vars

\* C35 witness: an upsert of a vector without a commit and of one with an
\* empty commit has returned successfully.
C35_Witness ==
  \E p \in Procs :
    /\ aop[p] = "upsert" /\ apc[p] = "ret" /\ ares[p].st = "ok"
    /\ \E k \in DOMAIN aarg[p].vectors : aarg[p].vectors[k].commit = Undefined
    /\ \E k \in DOMAIN aarg[p].vectors : aarg[p].vectors[k].commit = ""


(***************************************************************************)
(* Properties of the records a run builds                                   *)
(***************************************************************************)
\* C36: every vector a run hands to upsert carries the file path, chunk
\* index, start line and end line of its own chunk and the tenant,
\* repository URL and revision of the job, the revision being the empty
\* string when none was given; every record of a run in the store lies in
\* the namespace of the job's tenant.  Stated as the claim has it; the
\* adapter of services/pinecone.service.ts writes to the default namespace,
\* and the inline pipeline hands over the revision as it was given.
C36_RecordsCarryChunkAndJob ==
  /\ [][\A j \in Jobs :
          upsertCalls'[j] > upsertCalls[j] =>
            \A k \in DOMAIN aarg'[j].vectors :
              LET v == aarg'[j].vectors[k]
                  chunk == chunkAt(k)
              IN /\ v.filePath = chunk.filePath
                 /\ v.chunkIndex = chunk.chunkIndex
                 /\ v.startLine = chunk.startLine
                 /\ v.endLine = chunk.endLine
                 /\ v.userId = job[j].userId
                 /\ v.repoUrl = job[j].repoUrl
                 /\ v.commit = IF job[j].commit = Undefined THEN "" ELSE job[j].commit]_vars
  /\ [](\A ns \in Namespaces : \A r \in store[ns] :
          ns = getNamespaceForUser(job[r.id[1]].userId))


(***************************************************************************)
(* Properties of two jobs running side by side                              *)
(***************************************************************************)
\* the step is one of the run, or of the request, of job j
Moves(j) ==
  \/ pc'[j] # pc[j]
  \/ inflight'[j] # inflight[j]
  \/ apc'[j] # apc[j]
  \/ rlog'[j] # rlog[j]

\* the records of job j in the store
recordsOf(j, st) == [ns \in Namespaces |-> {r \in st[ns] : r.id[1] = j}]

\* C37: a step of one job, a ledger write or a failure included, changes
\* neither the record of another job nor the vectors the other job has
\* handed over or written, and a job that succeeded has all its vectors in
\* the store whatever became of the other job.
C37_JobsIndependent ==
  /\ [][\A j \in Jobs : \A k \in Jobs \ {j} :
          Moves(j) =>
            /\ job'[k] = job[k]
            /\ trace'[k] = trace[k]
            /\ aarg'[k] = aarg[k]
            /\ recordsOf(k, store') = recordsOf(k, store)]_vars
  /\ [](\A k \in Jobs :
          (job[k].status = "succeeded" /\ nChunks[k] > 0) =>
            \A m \in 1..nChunks[k] :
              \E ns \in Namespaces :
                \E r \in store[ns] :
                  /\ r.id = <<k, m>>
                  /\ r.userId = job[k].userId
                  /\ r.filePath = chunkAt(m).filePath)

\* C37 witness: of two jobs of one tenant one has failed and the other has
\* succeeded and written its vector.
C37_Witness ==
  \E j \in Jobs, k \in Jobs :
    /\ j # k
    /\ job[j].userId = job[k].userId
    /\ job[j].status = "failed" /\ job[j].error # Undefined
    /\ job[k].status = "succeeded" /\ job[k].error = Undefined
    /\ nChunks[k] > 0
    /\ \E ns \in Namespaces : \E r \in store[ns] : r.id = <<k, 1>>


(***************************************************************************)
(* Properties of a walk over a tree with faults                             *)
(***************************************************************************)
\* the chunks of the entries visited, in the order of the visits
RECURSIVE chunksOf(_)
chunksOf(vs) ==
  IF vs = <<>> THEN <<>> ELSE Head(vs).fileChunks \o chunksOf(Tail(vs))

\* C38: the walk is never at a position it cannot go on from other than
\* its return, and it returns with every entry dealt with.
\* What lies below a directory that cannot be listed and a file that cannot
\* be read contribute no chunk, every other matching file the walk reaches
\* contributes its chunks, and the result is exactly the chunks of the
\* files taken, in order: the empty sequence when none matches.
C38_WalkNeverFails ==
  /\ kpc \in {"entry", "read", "loop", "done"}
  /\ kpc \in {"read", "loop"} => tree # <<>>
  /\ kpc = "loop" => li < Len(lines)
  /\ kpc = "done" =>
       /\ tree = <<>>
       /\ chunks = chunksOf(visited)
       /\ \A i \in DOMAIN visited :
            LET v == visited[i]
            IN /\ ~v.listable => (~v.included /\ v.fileChunks = <<>>)
               /\ (v.included /\ ~v.file.readable) => v.fileChunks = <<>>
               /\ ~v.included => v.fileChunks = <<>>
               /\ (v.listable /\ walkReaches(v.path) /\ shouldProcessFile(v.path))
                    => (v.included /\ (v.file.readable => v.fileChunks # <<>>))
       /\ (\A i \in DOMAIN visited : ~visited[i].included) => chunks = <<>>

\* C38 witness: the walk of the tree with an unlistable directory and an
\* unreadable file has returned the chunks of the two other matching files.
C38_Witness ==
  /\ kpc = "done"
  /\ Len(visited) = Len(FaultyTree)
  /\ ~visited[1].listable /\ ~visited[1].included
  /\ visited[2].included /\ ~visited[2].file.readable
  /\ [n \in DOMAIN chunks |-> chunks[n].filePath]
       = <<visited[3].path, visited[4].path>>


(***************************************************************************)
(* Properties of the order of the stages                                    *)
(***************************************************************************)
\* the positions of a run in the order the code passes them; the inline
\* pipeline writes running before it acquires, processEmbedding after; the
\* positions of the embedding loop share one place
stageOf(at) ==
  CASE at = "none" -> 0
    [] at = "userExists" -> 1
    [] at = "createJob" -> 2
    [] at = "running0" -> IF controller = "jobs" THEN 7 ELSE 3
    [] at = "mkdir" -> IF controller = "jobs" THEN 3 ELSE 4
    [] at = "clone" -> IF controller = "jobs" THEN 4 ELSE 5
    [] at = "checkout" -> IF controller = "jobs" THEN 5 ELSE 6
    [] at = "initial" -> 8
    [] at = "walk" -> 9
    [] at \in {"empty", "chunked"} -> 10
    [] at \in {"await", "progress", "embed", "iprogress"} -> 11
    [] at = "upsert" -> 12
    [] at = "succeed" -> 13
    [] at = "acq_clean" -> 14
    [] at = "catch" -> 15
    [] at = "finally" -> 16
    [] at \in {"done", "rejected"} -> 17

\* the place of the embedding loop
EmbeddingLoop == stageOf("await")

\* C39: a run passes each stage once and never goes back: the positions of
\* acquisition, of the upsert call and of the failure handling are entered
\* at most once, only the embedding loop is gone round; generateEmbedding
\* is requested at most once for each chunk and not at all after a request
\* has failed; each batch of the upsert is sent at most once, and none
\* after one has failed.
C39_NothingRetried ==
  /\ [][\A j \in Jobs :
          /\ stageOf(pc'[j]) >= stageOf(pc[j])
          /\ (pc'[j] # pc[j] /\ stageOf(pc'[j]) = stageOf(pc[j]))
               => stageOf(pc[j]) = EmbeddingLoop]_vars
  /\ [](\A j \in Jobs :
          /\ embedCalls[j] <= nChunks[j]
          /\ upsertCalls[j] <= 1
          /\ aop[j] = "upsert" => upsertAttempts(j) <= Len(planOf(j)))
  /\ [][\A j \in Jobs :
          /\ embedFailed[j] => embedCalls'[j] = embedCalls[j]
          /\ (aop[j] = "upsert" /\ ares[j].st = "err") => rlog'[j] \in {rlog[j], <<>>}
          /\ job[j].status = "failed" =>
               (embedCalls'[j] = embedCalls[j] /\ upsertCalls'[j] = upsertCalls[j]
                  /\ rlog'[j] \in {rlog[j], <<>>})]_vars

\* C39 witness: a run has ended failed on the second batch of its upsert,
\* having sent the first batch and the second once each.
C39_Witness ==
  \E j \in Jobs :
    /\ Ended(j)
    /\ job[j].status = "failed"
    /\ err[j] = "upsert failed"
    /\ nChunks[j] > PINECONE_BATCH_SIZE
    /\ embedCalls[j] = nChunks[j]
    /\ upsertCalls[j] = 1
    /\ \E ns \in Namespaces : \E r \in store[ns] : r.id = <<j, 1>>


(***************************************************************************)
(* Properties of a removal of the working directory that fails             *)
(***************************************************************************)
\* the removal of the working directory of job j is attempted in this step
\* and fails
ReleaseFails(j) ==
  rmCalls'[j] = rmCalls[j] + 1 /\ ~rmOk'[j]

\* C40: a removal of the working directory that fails is not raised and
\* changes nothing of the outcome: the step leaves the job record and the
\* error of the run as they were; in the finally block the record is already
\* terminal, the run ends there, and it throws only the error recorded
\* before; and a run recorded as succeeded has returned, whatever the removal
\* did.
C40_ReleaseFailureHarmless ==
  /\ [][\A j \in Jobs :
          ReleaseFails(j) =>
            /\ job'[j] = job[j]
            /\ err'[j] = err[j]
            /\ pc[j] = "finally" =>
                 /\ job[j].status \in {"succeeded", "failed"}
                 /\ pc'[j] = "done"
                 /\ job[j].status = "succeeded" => outcome'[j] = "returned"
                 /\ outcome'[j] = "thrown" =>
                      /\ err[j] # Undefined
                      /\ job[j].error = failureMessage(err[j])]_vars
  /\ [](\A j \in Jobs :
          (Ended(j) /\ job[j].status = "succeeded") =>
            /\ outcome[j] = "returned"
            /\ err[j] = Undefined)

\* C40 witness: a run that stored vectors has ended recorded as succeeded
\* and has returned although the removal of its directory failed.
C40_Witness ==
  \E j \in Jobs :
    /\ Ended(j)
    /\ job[j].status = "succeeded" /\ job[j].progress = 100
    /\ nVectors[j] > 0
    /\ rmCalls[j] = 1 /\ ~rmOk[j] /\ dirExists[workDirOf(j)]
    /\ outcome[j] = "returned"

====
